---- MODULE Spec2Model ----
(***************************************************************************)
(* A model of the notebooks of VridhiJ/LLMs: adapter injection by          *)
(* substring match on module paths (LoRA and IA3 notebooks), the adapters' *)
(* forward passes, parameter freezing and counting, and the quantization   *)
(* notebook's qconfig assignment, training loop and memory arithmetic.     *)
(*                                                                         *)
(* A torch model is an object graph.  It is modelled as a heap: mods is    *)
(* the sequence of nn.Module objects (an object's identity is its index),  *)
(* pars the sequence of nn.Parameter objects, root the index of the model. *)
(* Dotted module names are TLA+ strings, so Python's `key in name` and     *)
(* `path.split('.')` are modelled character by character.                  *)
(***************************************************************************)
EXTENDS Integers, Sequences, FiniteSets, TLC

VARIABLES
  model,   \* the heap of the notebook's model object: [mods, pars, root]
  pre,     \* the heap as it was when the last call started
  call,    \* the last call: [op, match_on, fn, exc, ret]
  ncalls,  \* number of calls made so far
  nb,      \* the notebook being run: "LoRA", "IA3" or "Quantization"
  printed, \* the lines the notebook's cells have printed, in order
  train_dataloader,  \* the loss of each batch of the notebook's train dataloader
  ns       \* the tensors and layers bound to names in the notebook's cells

vars == <<model, pre, call, ncalls, nb, printed, train_dataloader, ns>>

(***************************************************************************)
(* Bounds of the model.                                                    *)
(***************************************************************************)
\* number of notebook calls explored after the model is loaded
MaxCalls == 2
\* number of decoder layers of the models the exhaustive exploration loads
NumLayersSmall == 1
\* largest number of epochs one run of the notebook trains for, over all its
\* train_model calls
MaxEpochs == 2
\* largest number of batches of the train dataloader
MaxBatches == 2
\* batch losses are drawn from 1..MaxLoss
MaxLoss == 2
\* in_features and out_features of the layers whose forward pass is computed
MaxFeatures == 2
\* the leading (batch, sequence) dimensions of the inputs fed to them
MaxLead == 2
\* rows and columns of the tensors whose memory is measured, besides the
\* notebook's own
MaxDim == 6

(***************************************************************************)
(* Python strings.                                                         *)
(***************************************************************************)
\* Python's `key in name` on strings: key occurs as a contiguous substring
Contains(key, name) ==
  \/ Len(key) = 0
  \/ \E i \in 1..(Len(name) - Len(key) + 1) : SubSeq(name, i, i + Len(key) - 1) = key

\* index of the first '.' of s, 0 when there is none
FirstDot(s) ==
  LET dots == {i \in 1..Len(s) : SubSeq(s, i, i) = "."}
  IN IF dots = {} THEN 0 ELSE CHOOSE i \in dots : \A j \in dots : i <= j

RECURSIVE SplitDots(_)
\* Python's s.split('.'): always at least one component, "" included
SplitDots(s) ==
  LET i == FirstDot(s)
  IN IF i = 0 THEN <<s>>
     ELSE <<SubSeq(s, 1, i - 1)>> \o SplitDots(SubSeq(s, i + 1, Len(s)))

(***************************************************************************)
(* Python values passed as is_feedforward: a bool or a list of strings.    *)
(***************************************************************************)
PyBool(b) == [t |-> "bool", b |-> b, l |-> <<>>]
PyList(l) == [t |-> "list", b |-> FALSE, l |-> l]

\* Python truthiness (`if not v`): a bool is itself, a list is true iff non-empty
Truthy(v) == IF v.t = "bool" THEN v.b ELSE Len(v.l) > 0

(***************************************************************************)
(* Sequences of sequences and of numbers, by halving (the recursion depth  *)
(* stays logarithmic in the length).                                       *)
(***************************************************************************)
\* the elements of a sequence, as a set
Range(f) == {f[i] : i \in DOMAIN f}

RECURSIVE ConcatRange(_, _, _)
\* f[lo] \o ... \o f[hi] for a sequence f of sequences
ConcatRange(f, lo, hi) ==
  IF lo > hi THEN <<>>
  ELSE IF lo = hi THEN f[lo]
  ELSE LET mid == (lo + hi) \div 2
       IN ConcatRange(f, lo, mid) \o ConcatRange(f, mid + 1, hi)

Flatten(f) == ConcatRange(f, 1, Len(f))

RECURSIVE SumRange(_, _, _)
\* f[lo] + ... + f[hi] for a sequence f of numbers
SumRange(f, lo, hi) ==
  IF lo > hi THEN 0
  ELSE IF lo = hi THEN f[lo]
  ELSE LET mid == (lo + hi) \div 2
       IN SumRange(f, lo, mid) + SumRange(f, mid + 1, hi)

Sum(f) == SumRange(f, 1, Len(f))

\* f[1] + ... + f[i - 1]
SumBefore(f, i) == SumRange(f, 1, i - 1)

(***************************************************************************)
(* The heap.  A heap [mods, pars, root]: module identities index mods,     *)
(* parameter identities index pars.                                        *)
(***************************************************************************)
EmptyHeap == [mods |-> <<>>, pars |-> <<>>, root |-> 0]

\* a fresh nn.Parameter of numel elements (requires_grad defaults to True)
Param(numel) == [numel |-> numel, requires_grad |-> TRUE, data |-> 0, grad |-> 0]

Kid(name, id) == [name |-> name, id |-> id]

\* a module object with no attribute set beyond nn.Module's own
BareModule(cls) ==
  [cls |-> cls, isEmbedding |-> FALSE, kids |-> <<>>, pars |-> <<>>,
   hasFeatures |-> FALSE, in_features |-> 0, out_features |-> 0,
   is_feedforward |-> PyBool(FALSE), r |-> 0, lora_alpha |-> 0,
   qconfig |-> "unset", training |-> TRUE]

\* the identity of the module allocated last
Last(m) == Len(m.mods)

\* a heap of one module that owns the parameters ps (name, numel) in order
Single(rec, ps) ==
  [mods |-> <<[rec EXCEPT !.pars = [i \in DOMAIN ps |-> Kid(ps[i].name, i)]]>>,
   pars |-> [i \in DOMAIN ps |-> Param(ps[i].numel)],
   root |-> 1]

NamedParam(name, numel) == [name |-> name, numel |-> numel]

\* nn.Linear(in_features, out_features, bias)
Linear(inF, outF, bias) ==
  Single([BareModule("Linear") EXCEPT !.hasFeatures = TRUE,
                                      !.in_features = inF, !.out_features = outF],
         IF bias THEN <<NamedParam("weight", inF * outF), NamedParam("bias", outF)>>
                 ELSE <<NamedParam("weight", inF * outF)>>)

\* nn.Embedding(num, dim) or a subclass of it
Embedding(cls, num, dim) ==
  Single([BareModule(cls) EXCEPT !.isEmbedding = TRUE], <<NamedParam("weight", num * dim)>>)

\* nn.LayerNorm(dim): weight and bias
LayerNorm(dim) ==
  Single(BareModule("LayerNorm"), <<NamedParam("weight", dim), NamedParam("bias", dim)>>)

\* GemmaRMSNorm(dim): weight only
RMSNorm(dim) == Single(BareModule("GemmaRMSNorm"), <<NamedParam("weight", dim)>>)

\* a parameterless leaf (activation, dropout, rotary embedding)
Leaf(cls) == Single(BareModule(cls), <<>>)

\* heap h with every module identity moved by dm and parameter identity by dp
Relocate(h, dm, dp) ==
  [mods |-> [i \in DOMAIN h.mods |->
               [h.mods[i] EXCEPT
                  !.kids = [k \in DOMAIN @ |-> Kid(@[k].name, @[k].id + dm)],
                  !.pars = [k \in DOMAIN @ |-> Kid(@[k].name, @[k].id + dp)]]],
   pars |-> h.pars,
   root |-> h.root + dm]

\* a container module of class cls over the heaps hs of its children, which
\* are registered under names in order; the container is allocated last
Container(cls, names, hs) ==
  LET nm == [i \in DOMAIN hs |-> Len(hs[i].mods)]
      np == [i \in DOMAIN hs |-> Len(hs[i].pars)]
      rs == [i \in DOMAIN hs |-> Relocate(hs[i], SumBefore(nm, i), SumBefore(np, i))]
      mods == Flatten([i \in DOMAIN hs |-> rs[i].mods])
  IN [mods |-> Append(mods, [BareModule(cls) EXCEPT
                               !.kids = [i \in DOMAIN hs |-> Kid(names[i], rs[i].root)]]),
      pars |-> Flatten([i \in DOMAIN hs |-> rs[i].pars]),
      root |-> Len(mods) + 1]

(***************************************************************************)
(* Building a model from a blueprint.  A blueprint is a record [k, ...]; a *)
(* container's kids are [name, bp] records in registration order.          *)
(***************************************************************************)
BLinear(inF, outF, bias) == [k |-> "Linear", a |-> inF, b |-> outF, bias |-> bias]
BEmbedding(cls, num, dim) == [k |-> "Embedding", cls |-> cls, a |-> num, b |-> dim]
BLayerNorm(dim) == [k |-> "LayerNorm", a |-> dim]
BRMSNorm(dim) == [k |-> "RMSNorm", a |-> dim]
BLeaf(cls) == [k |-> "Leaf", cls |-> cls]
BContainer(cls, kids) == [k |-> "Container", cls |-> cls, kids |-> kids]
BKid(name, bp) == [name |-> name, bp |-> bp]

RECURSIVE Build(_)
Build(bp) ==
  CASE bp.k = "Linear"    -> Linear(bp.a, bp.b, bp.bias)
    [] bp.k = "Embedding" -> Embedding(bp.cls, bp.a, bp.b)
    [] bp.k = "LayerNorm" -> LayerNorm(bp.a)
    [] bp.k = "RMSNorm"   -> RMSNorm(bp.a)
    [] bp.k = "Leaf"      -> Leaf(bp.cls)
    [] bp.k = "Container" ->
         Container(bp.cls, [i \in DOMAIN bp.kids |-> bp.kids[i].name],
                   [i \in DOMAIN bp.kids |-> Build(bp.kids[i].bp)])

\* nn.ModuleList of n copies of a layer, registered as "0" .. "n-1"
BModuleList(n, layer) ==
  BContainer("ModuleList", [i \in 1..n |-> BKid(ToString(i - 1), layer)])

\* a causal LM of class cls over a body whose first parameter is the token
\* embedding: lm_head is a bias-free Linear whose weight is that parameter
CausalLM(cls, body, inF, outF) ==
  LET head == [BareModule("Linear") EXCEPT !.pars = <<Kid("weight", 1)>>,
                                           !.hasFeatures = TRUE,
                                           !.in_features = inF, !.out_features = outF]
      top == [BareModule(cls) EXCEPT
                !.kids = <<Kid("model", body.root), Kid("lm_head", Len(body.mods) + 1)>>]
  IN [mods |-> body.mods \o <<head, top>>, pars |-> body.pars,
      root |-> Len(body.mods) + 2]

(***************************************************************************)
(* facebook/opt-125m as the LoRA notebook prints it.                       *)
(***************************************************************************)
OPTHidden == 768
OPTFfn == 3072
OPTVocab == 50272
OPTPositions == 2050
OPTLayers == 12

OPTDecoderLayer ==
  BContainer("OPTDecoderLayer", <<
    BKid("self_attn", BContainer("OPTSdpaAttention", <<
      BKid("k_proj", BLinear(OPTHidden, OPTHidden, TRUE)),
      BKid("v_proj", BLinear(OPTHidden, OPTHidden, TRUE)),
      BKid("q_proj", BLinear(OPTHidden, OPTHidden, TRUE)),
      BKid("out_proj", BLinear(OPTHidden, OPTHidden, TRUE)) >>)),
    BKid("activation_fn", BLeaf("ReLU")),
    BKid("self_attn_layer_norm", BLayerNorm(OPTHidden)),
    BKid("fc1", BLinear(OPTHidden, OPTFfn, TRUE)),
    BKid("fc2", BLinear(OPTFfn, OPTHidden, TRUE)),
    BKid("final_layer_norm", BLayerNorm(OPTHidden)) >>)

\* AutoModelForCausalLM.from_pretrained("facebook/opt-125m"): lm_head.weight is
\* the embed_tokens.weight parameter (the first parameter allocated)
OPTForCausalLM(nLayers) ==
  CausalLM("OPTForCausalLM",
           Build(BContainer("OPTModel", <<
              BKid("decoder", BContainer("OPTDecoder", <<
                BKid("embed_tokens", BEmbedding("Embedding", OPTVocab, OPTHidden)),
                BKid("embed_positions",
                     BEmbedding("OPTLearnedPositionalEmbedding", OPTPositions, OPTHidden)),
                BKid("final_layer_norm", BLayerNorm(OPTHidden)),
                BKid("layers", BModuleList(nLayers, OPTDecoderLayer)) >>)) >>)),
           OPTHidden, OPTVocab)

(***************************************************************************)
(* google/gemma-2b as the IA3 notebook prints it.                          *)
(***************************************************************************)
GemmaHidden == 2048
GemmaKV == 256
GemmaIntermediate == 16384
GemmaVocab == 256000
GemmaLayers == 18

GemmaDecoderLayer ==
  BContainer("GemmaDecoderLayer", <<
    BKid("self_attn", BContainer("GemmaAttention", <<
      BKid("q_proj", BLinear(GemmaHidden, GemmaHidden, FALSE)),
      BKid("k_proj", BLinear(GemmaHidden, GemmaKV, FALSE)),
      BKid("v_proj", BLinear(GemmaHidden, GemmaKV, FALSE)),
      BKid("o_proj", BLinear(GemmaHidden, GemmaHidden, FALSE)) >>)),
    BKid("mlp", BContainer("GemmaMLP", <<
      BKid("gate_proj", BLinear(GemmaHidden, GemmaIntermediate, FALSE)),
      BKid("up_proj", BLinear(GemmaHidden, GemmaIntermediate, FALSE)),
      BKid("down_proj", BLinear(GemmaIntermediate, GemmaHidden, FALSE)),
      BKid("act_fn", BLeaf("GELUActivation")) >>)),
    BKid("input_layernorm", BRMSNorm(GemmaHidden)),
    BKid("post_attention_layernorm", BRMSNorm(GemmaHidden)) >>)

\* AutoModelForCausalLM.from_pretrained("google/gemma-2b"), lm_head tied
GemmaForCausalLM(nLayers) ==
  CausalLM("GemmaForCausalLM",
           Build(BContainer("GemmaModel", <<
              BKid("embed_tokens", BEmbedding("Embedding", GemmaVocab, GemmaHidden)),
              BKid("layers", BModuleList(nLayers, GemmaDecoderLayer)),
              BKid("norm", BRMSNorm(GemmaHidden)),
              BKid("rotary_emb", BLeaf("GemmaRotaryEmbedding")) >>)),
           GemmaHidden, GemmaVocab)

(***************************************************************************)
(* distilbert-base-uncased with a 2-label classification head, as the      *)
(* quantization notebook loads it (the layout is the library's).           *)
(***************************************************************************)
DistilBertBlock ==
  BContainer("TransformerBlock", <<
    BKid("attention", BContainer("MultiHeadSelfAttention", <<
      BKid("dropout", BLeaf("Dropout")),
      BKid("q_lin", BLinear(768, 768, TRUE)),
      BKid("k_lin", BLinear(768, 768, TRUE)),
      BKid("v_lin", BLinear(768, 768, TRUE)),
      BKid("out_lin", BLinear(768, 768, TRUE)) >>)),
    BKid("sa_layer_norm", BLayerNorm(768)),
    BKid("ffn", BContainer("FFN", <<
      BKid("dropout", BLeaf("Dropout")),
      BKid("lin1", BLinear(768, 3072, TRUE)),
      BKid("lin2", BLinear(3072, 768, TRUE)),
      BKid("activation", BLeaf("GELUActivation")) >>)),
    BKid("output_layer_norm", BLayerNorm(768)) >>)

DistilBertForSequenceClassification(nLayers) ==
  Build(BContainer("DistilBertForSequenceClassification", <<
              BKid("distilbert", BContainer("DistilBertModel", <<
                BKid("embeddings", BContainer("Embeddings", <<
                  BKid("word_embeddings", BEmbedding("Embedding", 30522, 768)),
                  BKid("position_embeddings", BEmbedding("Embedding", 512, 768)),
                  BKid("LayerNorm", BLayerNorm(768)),
                  BKid("dropout", BLeaf("Dropout")) >>)),
                BKid("transformer", BContainer("Transformer", <<
                  BKid("layer", BModuleList(nLayers, DistilBertBlock)) >>)) >>)),
              BKid("pre_classifier", BLinear(768, 768, TRUE)),
              BKid("classifier", BLinear(768, 2, TRUE)),
              BKid("dropout", BLeaf("Dropout")) >>))

(***************************************************************************)
(* nn.Module's traversals, as the notebooks call them.                     *)
(***************************************************************************)
JoinName(prefix, name) == IF prefix = "" THEN name ELSE prefix \o "." \o name

\* the entries of s whose id did not occur earlier in s, in order (the memo
\* set of named_modules and named_parameters: each object is yielded once)
FirstOccurrences(s) ==
  LET ids == [i \in DOMAIN s |-> s[i].id]
  IN IF Cardinality(Range(ids)) = Len(s) THEN s
     ELSE Flatten([i \in DOMAIN s |->
                     IF \A j \in 1..(i - 1) : ids[j] # ids[i] THEN <<s[i]>> ELSE <<>>])

RECURSIVE WalkModules(_, _, _)
\* the preorder walk of Module.named_modules below module id: the module under
\* its prefix, then each registered child's walk in registration order
WalkModules(m, id, prefix) ==
  LET kids == m.mods[id].kids
  IN <<[name |-> prefix, id |-> id]>> \o
     Flatten([i \in DOMAIN kids |->
                WalkModules(m, kids[i].id, JoinName(prefix, kids[i].name))])

\* model.named_modules(): the sequence of [name, id], the root first as ""; a
\* module object reachable twice is yielded under its first name only
named_modules(m) == FirstOccurrences(WalkModules(m, m.root, ""))

\* model.named_parameters(): [name, id] of every parameter of every module of
\* named_modules(), a parameter object shared by two modules once
named_parameters(m) ==
  LET ms == named_modules(m)
  IN FirstOccurrences(Flatten(
       [i \in DOMAIN ms |->
          [j \in DOMAIN m.mods[ms[i].id].pars |->
             [name |-> JoinName(ms[i].name, m.mods[ms[i].id].pars[j].name),
              id |-> m.mods[ms[i].id].pars[j].id]]]))

\* model.parameters(): the parameter identities of named_parameters()
parameters(m) ==
  LET ps == named_parameters(m) IN [i \in DOMAIN ps |-> ps[i].id]

\* sum(p.numel() for p in model.parameters())
TotalNumel(m) ==
  LET ps == parameters(m) IN Sum([i \in DOMAIN ps |-> m.pars[ps[i]].numel])

(***************************************************************************)
(* The adapters (their constructors; the forward passes are further down). *)
(***************************************************************************)
\* the module's attribute of that name when it is a registered submodule, else 0
ChildId(m, id, name) ==
  LET kids == m.mods[id].kids
      hit == {i \in DOMAIN kids : kids[i].name = name}
  IN IF hit = {} THEN 0 ELSE kids[CHOOSE i \in hit : TRUE].id

\* hasattr(module, "weight"): a registered parameter of that name
HasWeight(m, id) == \E i \in DOMAIN m.mods[id].pars : m.mods[id].pars[i].name = "weight"

\* heap m with a new module rec owning fresh parameters ps, allocated last
Allocate(m, rec, ps) ==
  [m EXCEPT !.mods = Append(@, [rec EXCEPT !.pars =
                       [i \in DOMAIN ps |-> Kid(ps[i].name, Len(m.pars) + i)]]),
            !.pars = @ \o [i \in DOMAIN ps |-> Param(ps[i].numel)]]

\* a faulty variant: lora_A sized by out_features
LoRAAdapter_WrongA(m, existing_layer, in_features, out_features, r, lora_alpha) ==
  Allocate(m, [BareModule("LoRAAdapter") EXCEPT
                 !.kids = <<Kid("existing_layer", existing_layer)>>,
                 !.r = r, !.lora_alpha = lora_alpha],
           IF r > 0 THEN <<NamedParam("lora_A", r * out_features),
                           NamedParam("lora_B", out_features * r)>>
                    ELSE <<>>)

\* LoRAAdapter(existing_layer, in_features, out_features, r, lora_alpha) with
\* lora_dropout = 0: lora_A is r x in_features, lora_B is out_features x r,
\* both created only when r > 0
LoRAAdapter(m, existing_layer, in_features, out_features, r, lora_alpha) ==
  Allocate(m, [BareModule("LoRAAdapter") EXCEPT
                 !.kids = <<Kid("existing_layer", existing_layer)>>,
                 !.r = r, !.lora_alpha = lora_alpha],
           IF r > 0 THEN <<NamedParam("lora_A", r * in_features),
                           NamedParam("lora_B", out_features * r)>>
                    ELSE <<>>)

\* a faulty variant: the two branches of the conditional exchanged
IA3LwLen_Swapped(in_features, out_features, is_feedforward) ==
  IF ~Truthy(is_feedforward) THEN in_features ELSE out_features

\* the length of ia3_lw: `out_features if not is_feedforward else in_features`
IA3LwLen(in_features, out_features, is_feedforward) ==
  IF ~Truthy(is_feedforward) THEN out_features ELSE in_features

\* IA3Adapter1 / IA3Adapter2 (cls) constructor: the same fields in both
IA3Adapter(m, cls, existing_layer, in_features, out_features, is_feedforward) ==
  Allocate(m, [BareModule(cls) EXCEPT
                 !.kids = <<Kid("existing_layer", existing_layer)>>,
                 !.is_feedforward = is_feedforward,
                 !.hasFeatures = TRUE,
                 !.in_features = in_features, !.out_features = out_features],
           <<NamedParam("ia3_lw", IA3LwLen(in_features, out_features, is_feedforward))>>)

\* the adapter_fn lambdas of the injection cells, applied to module x:
\*   lambda x: LoRAAdapter(x, r=.., lora_alpha=.., in_features=x.in_features, ...)
\*   lambda x: IA3Adapter1(x, in_features=x.in_features, ..., is_feedforward=..)
\* x.in_features raises AttributeError on a module without that attribute
adapter_fn(m, fn, x) ==
  IF ~m.mods[x].hasFeatures THEN [m |-> m, id |-> 0, exc |-> "AttributeError"]
  ELSE LET inF == m.mods[x].in_features
           outF == m.mods[x].out_features
           m1 == IF fn.cls = "LoRAAdapter"
                 THEN LoRAAdapter(m, x, inF, outF, fn.r, fn.lora_alpha)
                 ELSE IA3Adapter(m, fn.cls, x, inF, outF, fn.is_feedforward)
       IN [m |-> m1, id |-> Last(m1), exc |-> "none"]

(***************************************************************************)
(* match_submodules, get_submodule, replace_submodule, inject_adapter.     *)
(***************************************************************************)
\* a faulty variant: the key is looked for in the module's own name (the last
\* component of the dotted name) only
match_submodules_OwnName(m, key) ==
  LET ms == named_modules(m)
  IN Flatten([i \in DOMAIN ms |->
                LET atoms == SplitDots(ms[i].name)
                IN IF Contains(key, atoms[Len(atoms)]) THEN <<ms[i].name>> ELSE <<>>])

\* the names of named_modules() that contain key, in traversal order
match_submodules(m, key) ==
  LET ms == named_modules(m)
  IN Flatten([i \in DOMAIN ms |->
                IF Contains(key, ms[i].name) THEN <<ms[i].name>> ELSE <<>>])

RECURSIVE WalkPath(_, _, _, _)
\* getattr along atoms[i..], from module id; 0 when an attribute is missing
WalkPath(m, id, atoms, i) ==
  IF i > Len(atoms) THEN id
  ELSE LET next == ChildId(m, id, atoms[i])
       IN IF next = 0 THEN 0 ELSE WalkPath(m, next, atoms, i + 1)

\* model.get_submodule(module_name): the module's identity, or 0 for the
\* AttributeError torch raises; the empty name is the model itself
get_submodule(m, module_name) ==
  IF module_name = "" THEN m.root
  ELSE WalkPath(m, m.root, SplitDots(module_name), 1)

\* a faulty variant: the parent keeps only the module just assigned
SetAttrModule_DropsSiblings(m, parent, name, new_module) ==
  [m EXCEPT !.mods[parent].kids = <<Kid(name, new_module)>>]

\* setattr(parent, name, new_module) for a Module value: a parameter of that
\* name is removed; a registered submodule of that name is replaced in place,
\* otherwise the module is registered last
SetAttrModule(m, parent, name, new_module) ==
  LET old == m.mods[parent]
      pars == SelectSeq(old.pars, LAMBDA p : p.name # name)
      kids == IF \E i \in DOMAIN old.kids : old.kids[i].name = name
              THEN [i \in DOMAIN old.kids |->
                      IF old.kids[i].name = name THEN Kid(name, new_module)
                      ELSE old.kids[i]]
              ELSE Append(old.kids, Kid(name, new_module))
  IN [m EXCEPT !.mods[parent] = [old EXCEPT !.kids = kids, !.pars = pars]]

\* a faulty variant: the attribute is set on the model itself, not on the
\* parent the path leads to
replace_submodule_OnModel(m, module_path, new_module) ==
  LET modules == SplitDots(module_path)
  IN [m |-> SetAttrModule(m, m.root, modules[Len(modules)], new_module),
      exc |-> "none"]

\* replace_submodule(model, module_path, new_module): getattr along all but
\* the last component, setattr of the last
replace_submodule(m, module_path, new_module) ==
  LET modules == SplitDots(module_path)
      parent_module == WalkPath(m, m.root, SubSeq(modules, 1, Len(modules) - 1), 1)
  IN IF parent_module = 0 THEN [m |-> m, exc |-> "AttributeError"]
     ELSE [m |-> SetAttrModule(m, parent_module, modules[Len(modules)], new_module),
           exc |-> "none"]

\* one iteration of inject_adapter's inner loop on module_path.  st is
\* [m, exc, processed]; once an exception is raised nothing more runs.
\* guarded: the IA3 notebook's version (processed_modules, .to(device));
\* otherwise the LoRA notebook's (.to(current_module.weight.device))
InjectOne(st, module_path, fn, guarded) ==
  IF st.exc # "none" THEN st
  ELSE IF guarded /\ module_path \in st.processed THEN st
  ELSE LET current_module == get_submodule(st.m, module_path)
       IN IF current_module = 0 THEN [st EXCEPT !.exc = "AttributeError"]
          ELSE LET made == adapter_fn(st.m, fn, current_module)
               IN IF made.exc # "none" THEN [st EXCEPT !.exc = made.exc]
                  ELSE IF ~guarded /\ ~HasWeight(st.m, current_module)
                       THEN [st EXCEPT !.exc = "AttributeError"]
                  ELSE LET put == replace_submodule(made.m, module_path, made.id)
                       IN [m |-> put.m, exc |-> put.exc,
                           processed |-> IF guarded THEN st.processed \cup {module_path}
                                         ELSE st.processed]

RECURSIVE InjectPaths(_, _, _, _, _, _)
\* `for module_path in matching_layers[lo..hi]`, in order
InjectPaths(st, matching_layers, lo, hi, fn, guarded) ==
  IF lo > hi THEN st
  ELSE IF lo = hi THEN InjectOne(st, matching_layers[lo], fn, guarded)
  ELSE LET mid == (lo + hi) \div 2
           done == InjectPaths(st, matching_layers, lo, mid, fn, guarded)
       IN IF done.exc # "none" THEN done
          ELSE InjectPaths(done, matching_layers, mid + 1, hi, fn, guarded)

RECURSIVE InjectKeys(_, _, _, _, _)
\* `for key in match_on[i..]`: the matches are computed on the model as the
\* earlier keys left it
InjectKeys(st, match_on, i, fn, guarded) ==
  IF i > Len(match_on) \/ st.exc # "none" THEN st
  ELSE LET matching_layers == match_submodules(st.m, match_on[i])
           done == InjectPaths(st, matching_layers, 1, Len(matching_layers), fn, guarded)
       IN IF done.exc # "none" THEN done
          ELSE InjectKeys(done, match_on, i + 1, fn, guarded)

\* inject_adapter of the LoRA notebook: [m, exc, processed]
inject_adapter_LoRA(m, match_on, fn) ==
  InjectKeys([m |-> m, exc |-> "none", processed |-> {}], match_on, 1, fn, FALSE)

\* a faulty variant: the layers that adapters already wrap count as processed
inject_adapter_IA3_SkipsWrapped(m, match_on, fn) ==
  InjectKeys([m |-> m, exc |-> "none",
              processed |-> Range(match_submodules(m, "existing_layer"))],
             match_on, 1, fn, TRUE)

\* inject_adapter of the IA3 notebook, with its processed_modules set
inject_adapter_IA3(m, match_on, fn) ==
  InjectKeys([m |-> m, exc |-> "none", processed |-> {}], match_on, 1, fn, TRUE)

(***************************************************************************)
(* Freezing and counting parameters, assigning qconfigs.                   *)
(***************************************************************************)
\* `for param in model.parameters(): param.requires_grad = False`
FreezeAll(m) ==
  LET ps == Range(parameters(m))
  IN [m EXCEPT !.pars = [i \in DOMAIN @ |->
                           IF i \in ps THEN [@[i] EXCEPT !.requires_grad = FALSE]
                           ELSE @[i]]]

\* `for name, param in model.named_parameters():
\*      if "lora_A" in name or "lora_B" in name: param.requires_grad = True`
EnableLoRA(m) ==
  LET np == named_parameters(m)
      hit == {np[i].id : i \in {j \in DOMAIN np :
                 Contains("lora_A", np[j].name) \/ Contains("lora_B", np[j].name)}}
  IN [m EXCEPT !.pars = [i \in DOMAIN @ |->
                           IF i \in hit THEN [@[i] EXCEPT !.requires_grad = TRUE]
                           ELSE @[i]]]

\* a faulty variant: the loop that freezes every parameter is left out
mark_only_lora_as_trainable_NoFreeze(m) == EnableLoRA(m)

\* mark_only_lora_as_trainable(model): the two loops in order
mark_only_lora_as_trainable(m) == EnableLoRA(FreezeAll(m))

\* Python's int is unbounded and the counts of the full-size model pass 2^31:
\* a count is kept as [hi, lo] = hi * Limb + lo with 0 <= lo < Limb
Limb == 1000000000

PyInt(n) == [hi |-> n \div Limb, lo |-> n % Limb]

\* a + b on two counts
PyAdd(a, b) ==
  [hi |-> a.hi + b.hi + ((a.lo + b.lo) \div Limb), lo |-> (a.lo + b.lo) % Limb]

RECURSIVE PySumRange(_, _, _)
\* the count f[lo] + ... + f[hi] for a sequence f of numbers below 2^31
PySumRange(f, lo, hi) ==
  IF lo > hi THEN PyInt(0)
  ELSE IF lo = hi THEN PyInt(f[lo])
  ELSE PyAdd(PySumRange(f, lo, (lo + hi) \div 2),
             PySumRange(f, ((lo + hi) \div 2) + 1, hi))

PySum(f) == PySumRange(f, 1, Len(f))

\* `for param in model.parameters(): total_params += param.numel()`
CountAll(m, ps) == PySum([i \in DOMAIN ps |-> m.pars[ps[i]].numel])

\* `for name, param in model.named_parameters():
\*      if "ia3_lw" in name: trainable_params += param.numel()`
CountIA3(m, np) ==
  PySum([i \in DOMAIN np |->
           IF Contains("ia3_lw", np[i].name) THEN m.pars[np[i].id].numel ELSE 0])

\* ia3_params(model): the two counting loops; returns <<total_params,
\* trainable_params>> and assigns nothing
ia3_params(m) ==
  [m |-> m, ret |-> <<CountAll(m, parameters(m)), CountIA3(m, named_parameters(m))>>]

\* a faulty variant: embedding layers are recognised by the word "embeddings"
\* in their path instead of by their class
set_qconfig_for_model_ByName(m) ==
  LET ms == named_modules(m)
      emb == {ms[i].id : i \in {j \in DOMAIN ms : Contains("embeddings", ms[j].name)}}
      ids == {ms[i].id : i \in DOMAIN ms}
  IN [m EXCEPT !.mods = [i \in DOMAIN @ |->
                           IF i \in ids
                           THEN [@[i] EXCEPT !.qconfig =
                                   IF i \in emb THEN "embedding_qconfig"
                                   ELSE "default_qconfig"]
                           ELSE @[i]]]

\* set_qconfig_for_model(model): every module of named_modules() gets
\* embedding_qconfig when isinstance(module, torch.nn.Embedding), else
\* default_qconfig
set_qconfig_for_model(m) ==
  LET ms == named_modules(m)
      ids == {ms[i].id : i \in DOMAIN ms}
  IN [m EXCEPT !.mods = [i \in DOMAIN @ |->
                           IF i \in ids
                           THEN [@[i] EXCEPT !.qconfig =
                                   IF m.mods[i].isEmbedding THEN "embedding_qconfig"
                                   ELSE "default_qconfig"]
                           ELSE @[i]]]

(***************************************************************************)
(* The quantization notebook's training and evaluation loops.              *)
(***************************************************************************)
\* model.train(mode): Module.train sets training on the module and on every
\* module below it
SetTraining(m, mode) ==
  LET ms == named_modules(m)
      ids == {ms[i].id : i \in DOMAIN ms}
  IN [m EXCEPT !.mods = [i \in DOMAIN @ |->
                           IF i \in ids THEN [@[i] EXCEPT !.training = mode] ELSE @[i]]]

\* loss.backward(): the batch's gradient is accumulated into .grad of every
\* parameter that requires grad; no parameter's data is written
Backward(m, loss) ==
  LET ps == Range(parameters(m))
  IN [m EXCEPT !.pars = [i \in DOMAIN @ |->
                           IF i \in ps /\ @[i].requires_grad
                           THEN [@[i] EXCEPT !.grad = @ + loss] ELSE @[i]]]

RECURSIVE TrainBatches(_, _, _)
\* `for batch in train_dataloader`: forward, loss.backward(),
\* total_loss += loss.item().  st is [m, total_loss]; losses[i] is the loss of
\* the i-th batch of this epoch
TrainBatches(st, losses, i) ==
  IF i > Len(losses) THEN st
  ELSE TrainBatches([m |-> Backward(st.m, losses[i]),
                     total_loss |-> st.total_loss + losses[i]], losses, i + 1)

RECURSIVE TrainEpochs_NoReset(_, _, _, _)
\* a faulty variant: total_loss is set to 0 once, before the loop over the
\* epochs, and keeps growing from epoch to epoch
TrainEpochs_NoReset(st, num_epochs, losses, epoch) ==
  IF epoch >= num_epochs \/ st.exc # "none" THEN st
  ELSE LET carried == IF st.out = <<>> THEN 0 ELSE st.out[Len(st.out)].total_loss
           run == TrainBatches([m |-> st.m, total_loss |-> carried], losses, 1)
           len == Len(losses)
       IN IF len = 0 THEN [m |-> run.m, out |-> st.out, exc |-> "ZeroDivisionError"]
          ELSE TrainEpochs_NoReset(
                 [m |-> run.m,
                  out |-> Append(st.out, [line |-> "Epoch", epoch |-> epoch + 1,
                                          num_epochs |-> num_epochs,
                                          total_loss |-> run.total_loss, len |-> len]),
                  exc |-> "none"],
                 num_epochs, losses, epoch + 1)

RECURSIVE TrainEpochs(_, _, _, _)
\* `for epoch in range(num_epochs)`, from epoch (0-based).  st is
\* [m, out, exc]; losses are the batch losses of one pass over the dataloader
\* (the parameters never change, so every epoch sees the same ones).  The average
\* total_loss / len(train_dataloader) is printed as the pair it is computed from
TrainEpochs(st, num_epochs, losses, epoch) ==
  IF epoch >= num_epochs \/ st.exc # "none" THEN st
  ELSE LET run == TrainBatches([m |-> st.m, total_loss |-> 0], losses, 1)
           len == Len(losses)
       IN IF len = 0 THEN [m |-> run.m, out |-> st.out, exc |-> "ZeroDivisionError"]
          ELSE TrainEpochs(
                 [m |-> run.m,
                  out |-> Append(st.out, [line |-> "Epoch", epoch |-> epoch + 1,
                                          num_epochs |-> num_epochs,
                                          total_loss |-> run.total_loss, len |-> len]),
                  exc |-> "none"],
                 num_epochs, losses, epoch + 1)

\* train_model(model, train_dataloader, num_epochs): model.train(), then the
\* epochs; [m, out, exc] with out the lines printed
train_model(m, losses, num_epochs) ==
  TrainEpochs([m |-> SetTraining(m, TRUE), out |-> <<>>, exc |-> "none"],
              num_epochs, losses, 0)

\* evaluate_model(model, eval_dataloader): model.eval(), predictions under
\* torch.no_grad() (no gradient is accumulated), one "Accuracy" line printed.
\* The eval dataloader is abstracted to one example, predicted right or wrong
evaluate_model(m, correct) ==
  [m |-> SetTraining(m, FALSE),
   out |-> << [line |-> "Accuracy", epoch |-> 0, num_epochs |-> 0,
               total_loss |-> IF correct THEN 1 ELSE 0, len |-> 1] >>]

\* Model.from_pretrained(name) of the transformers library: the model built
\* from the checkpoint (m), put in evaluation mode before it is returned
from_pretrained(m) == SetTraining(m, FALSE)

\* copy.deepcopy(model): every module and parameter again as a new object,
\* the copies linked as the originals are; the heap's root is the copy's
DeepCopy(m) ==
  LET copy == Relocate(m, Len(m.mods), Len(m.pars))
  IN [mods |-> m.mods \o copy.mods, pars |-> m.pars \o copy.pars, root |-> copy.root]

RECURSIVE propagate_qconfig(_, _)
\* propagate_qconfig_ of prepare_qat: a module that has no qconfig of its own
\* takes its parent's.  todo is the worklist of [id, qconfig of the parent]
propagate_qconfig(m, todo) ==
  IF todo = <<>> THEN m
  ELSE LET id == Head(todo).id
           q == IF m.mods[id].qconfig = "unset" THEN Head(todo).qconfig
                ELSE m.mods[id].qconfig
           kids == m.mods[id].kids
       IN propagate_qconfig([m EXCEPT !.mods[id].qconfig = q],
                            [i \in DOMAIN kids |-> [id |-> kids[i].id, qconfig |-> q]]
                              \o Tail(todo))

\* convert(model, mapping) of prepare_qat on the modules from identity first
\* on: an nn.Linear or nn.Embedding that has a qconfig becomes the QAT module
\* of the default mapping (a subclass of its class, with the same parameters);
\* the observers that prepare() attaches hold no parameter and are left out
SwapToQAT(m, first) ==
  [m EXCEPT !.mods = [i \in DOMAIN @ |->
     IF i >= first /\ @[i].qconfig # "unset" /\ @[i].cls \in {"Linear", "Embedding"}
     THEN [@[i] EXCEPT !.cls = "qat." \o @] ELSE @[i]]]

\* a faulty variant: the model is prepared in place (inplace=True) and returned
prepare_qat_Inplace(m) ==
  IF ~m.mods[m.root].training THEN [m |-> m, exc |-> "AssertionError"]
  ELSE [m |-> SwapToQAT(propagate_qconfig(m, <<[id |-> m.root, qconfig |-> "unset"]>>), 1),
        exc |-> "none"]

\* torch.ao.quantization.prepare_qat(model, inplace=False): asserts
\* model.training, then prepares a deep copy, which it returns as [m].root
prepare_qat(m) ==
  IF ~m.mods[m.root].training THEN [m |-> m, exc |-> "AssertionError"]
  ELSE [m |-> SwapToQAT(propagate_qconfig(DeepCopy(m),
                                          <<[id |-> Len(m.mods) + m.root,
                                             qconfig |-> "unset"]>>),
                        Len(m.mods) + 1),
        exc |-> "none"]

(***************************************************************************)
(* Tensors: a shape, the elements in row-major order, and a dtype.         *)
(* Elements are integers; float32 holds them exactly, bfloat16 keeps 8     *)
(* significant bits.  None and a raised exception are carried in the       *)
(* dtype field with no elements.                                           *)
(***************************************************************************)
Tensor(shape, data, dtype) == [shape |-> shape, data |-> data, dtype |-> dtype]

None == Tensor(<<>>, <<>>, "None")

\* a name that is not bound yet
Unset == Tensor(<<>>, <<>>, "unset")

\* the exception a call raised instead of returning
Raise(exc) == Tensor(<<>>, <<>>, exc)

\* the floating point dtypes of the two adapter notebooks
Dtypes == {"float32", "bfloat16"}

IsRaise(t) == t.dtype \in {"ValueError", "RuntimeError", "AttributeError"}

RECURSIVE Prod(_)
\* the number of elements of a shape
Prod(shape) == IF shape = <<>> THEN 1 ELSE Head(shape) * Prod(Tail(shape))

\* the integers below which every integer is a value of the dtype: 8
\* significant bits in bfloat16, 11 in float16; float32 and the integer dtypes
\* hold every value that occurs
ExactBelow(dtype) ==
  CASE dtype = "bfloat16" -> 256
    [] dtype = "float16" -> 2048
    [] OTHER -> 0

RECURSIVE Ulp(_, _)
\* the spacing of the values at magnitude a when integers below limit are exact
Ulp(a, limit) == IF a < limit THEN 1 ELSE 2 * Ulp(a \div 2, limit)

\* the value of dtype nearest to v (ties to even)
RoundTo(v, dtype) ==
  IF ExactBelow(dtype) = 0 THEN v
  ELSE LET a == IF v < 0 THEN -v ELSE v
           u == Ulp(a, ExactBelow(dtype))
           q == a \div u
           rem == a % u
           n == IF 2 * rem > u \/ (2 * rem = u /\ q % 2 = 1) THEN q + 1 ELSE q
       IN (IF v < 0 THEN -1 ELSE 1) * n * u

\* a result of the given dtype holding the values data
Result(shape, data, dtype) ==
  Tensor(shape, [k \in DOMAIN data |-> RoundTo(data[k], dtype)], dtype)

\* tensor.to(dtype)
to(t, dtype) == IF IsRaise(t) THEN t ELSE Result(t.shape, t.data, dtype)

\* type promotion of an elementwise operation
Promote(d1, d2) == IF d1 = d2 THEN d1 ELSE "float32"

\* the number of elements one step along dimension i spans
Stride(shape, i) == Prod(SubSeq(shape, i + 1, Len(shape)))

\* shape padded with leading 1s to n dimensions
PadLeft(shape, n) ==
  [i \in 1..n |-> IF i <= n - Len(shape) THEN 1 ELSE shape[i - (n - Len(shape))]]

Max(a, b) == IF a >= b THEN a ELSE b

\* broadcasting: the shapes agree in every trailing dimension or one has 1
Broadcastable(s, t) ==
  LET n == Max(Len(s), Len(t))
  IN \A i \in 1..n : PadLeft(s, n)[i] = PadLeft(t, n)[i]
                       \/ PadLeft(s, n)[i] = 1 \/ PadLeft(t, n)[i] = 1

BroadcastShape(s, t) ==
  LET n == Max(Len(s), Len(t))
  IN [i \in 1..n |-> Max(PadLeft(s, n)[i], PadLeft(t, n)[i])]

\* the elements of t expanded to shape
Expand(t, shape) ==
  LET n == Len(shape)
      ps == PadLeft(t.shape, n)
  IN [k \in 1..Prod(shape) |->
        t.data[1 + Sum([i \in 1..n |->
                          IF ps[i] = 1 THEN 0
                          ELSE (((k - 1) \div Stride(shape, i)) % shape[i])
                                 * Stride(ps, i)])]]

\* an elementwise binary operation with broadcasting; op is "mul" or "add"
Elementwise(op, a, b) ==
  IF IsRaise(a) THEN a
  ELSE IF IsRaise(b) THEN b
  ELSE IF ~Broadcastable(a.shape, b.shape) THEN Raise("RuntimeError")
  ELSE LET shape == BroadcastShape(a.shape, b.shape)
           ea == Expand(a, shape)
           eb == Expand(b, shape)
       IN Result(shape,
                 [k \in 1..Prod(shape) |->
                    IF op = "mul" THEN ea[k] * eb[k] ELSE ea[k] + eb[k]],
                 Promote(a.dtype, b.dtype))

\* torch.mul(a, b)
mul(a, b) == Elementwise("mul", a, b)

\* a + b
add(a, b) == Elementwise("add", a, b)

\* tensor * c for a Python number c
MulScalar(t, c) ==
  IF IsRaise(t) THEN t
  ELSE Result(t.shape, [k \in DOMAIN t.data |-> t.data[k] * c], t.dtype)

\* x.view(-1, n)
view(t, n) ==
  IF IsRaise(t) THEN t
  ELSE IF Prod(t.shape) % n # 0 THEN Raise("RuntimeError")
  ELSE Tensor(<<Prod(t.shape) \div n, n>>, t.data, t.dtype)

\* t.view(-1)
Flat(t) == IF IsRaise(t) THEN t ELSE Tensor(<<Prod(t.shape)>>, t.data, t.dtype)

\* t.squeeze(): the dimensions of size 1 removed
squeeze(t) ==
  IF IsRaise(t) THEN t
  ELSE Tensor(SelectSeq(t.shape, LAMBDA d : d # 1), t.data, t.dtype)

\* t.T of a 2-D tensor
Transpose(t) ==
  IF IsRaise(t) THEN t
  ELSE LET rows == t.shape[1]
           cols == t.shape[2]
       IN Tensor(<<cols, rows>>,
                 [k \in 1..(rows * cols) |->
                    t.data[((k - 1) % rows) * cols + ((k - 1) \div rows) + 1]],
                 t.dtype)

\* torch.diag(v) of a 1-D tensor
diag(v) ==
  IF IsRaise(v) THEN v
  ELSE LET n == v.shape[1]
       IN Tensor(<<n, n>>,
                 [k \in 1..(n * n) |->
                    IF (k - 1) \div n = (k - 1) % n THEN v.data[((k - 1) % n) + 1] ELSE 0],
                 v.dtype)

\* torch.matmul(a, b) / a @ b of 2-D tensors: the dtypes must agree
matmul(a, b) ==
  IF IsRaise(a) THEN a
  ELSE IF IsRaise(b) THEN b
  ELSE IF Len(a.shape) # 2 \/ Len(b.shape) # 2 THEN Raise("RuntimeError")
  ELSE IF a.shape[2] # b.shape[1] \/ a.dtype # b.dtype THEN Raise("RuntimeError")
  ELSE LET n == a.shape[1]
           inner == a.shape[2]
           m == b.shape[2]
       IN Result(<<n, m>>,
                 [k \in 1..(n * m) |->
                    Sum([j \in 1..inner |->
                           a.data[((k - 1) \div m) * inner + j]
                             * b.data[(j - 1) * m + ((k - 1) % m) + 1]])],
                 a.dtype)

\* F.linear(input, weight, bias): input (..., in) times weight (out, in)
\* transposed, plus bias (out) unless it is None; the dtypes must agree
linear(input, weight, bias) ==
  IF IsRaise(input) THEN input
  ELSE IF IsRaise(weight) THEN weight
  ELSE IF IsRaise(bias) THEN bias
  ELSE IF Len(input.shape) = 0 \/ Len(weight.shape) # 2 THEN Raise("RuntimeError")
  ELSE IF input.shape[Len(input.shape)] # weight.shape[2]
          \/ input.dtype # weight.dtype
          \/ (bias # None /\ (bias.shape # <<weight.shape[1]>> \/ bias.dtype # weight.dtype))
       THEN Raise("RuntimeError")
  ELSE LET inF == weight.shape[2]
           outF == weight.shape[1]
           shape == [i \in 1..Len(input.shape) |->
                       IF i = Len(input.shape) THEN outF ELSE input.shape[i]]
       IN Result(shape,
                 [k \in 1..Prod(shape) |->
                    Sum([j \in 1..inF |->
                           input.data[((k - 1) \div outF) * inF + j]
                             * weight.data[((k - 1) % outF) * inF + j]])
                      + (IF bias = None THEN 0 ELSE bias.data[((k - 1) % outF) + 1])],
                 input.dtype)

(***************************************************************************)
(* Layers with their weights, and their forward passes.                    *)
(***************************************************************************)
\* nn.Linear holding weight (out x in) and bias (out, or None)
LinearLayer(weight, bias) == [cls |-> "Linear", weight |-> weight, bias |-> bias]

\* LoRAAdapter.__init__ with lora_dropout = 0: lora_A is drawn by torch.randn
\* (any r x in_features matrix a), lora_B is zeros; both float32.  scaling is
\* lora_alpha / r, modelled for lora_alpha a multiple of r
LoRAAdapterLayer(existing_layer, in_features, out_features, r, lora_alpha, a) ==
  [cls |-> "LoRAAdapter", existing_layer |-> existing_layer, r |-> r,
   lora_alpha |-> lora_alpha,
   lora_A |-> IF r > 0 THEN a ELSE Unset,
   lora_B |-> IF r > 0
              THEN Tensor(<<out_features, r>>, [k \in 1..(out_features * r) |-> 0], "float32")
              ELSE Unset,
   scaling |-> IF r > 0 THEN lora_alpha \div r ELSE 0]

\* LoRAAdapter.reset_parameters: lora_A redrawn (any matrix a), lora_B zeroed
reset_parameters(layer, a) ==
  IF layer.r > 0
  THEN [layer EXCEPT !.lora_A = a,
                     !.lora_B = Tensor(@.shape, [k \in DOMAIN @.data |-> 0], @.dtype)]
  ELSE layer

\* a faulty variant: ia3_lw starts as zeros
IA3AdapterLayer_Zeros(cls, existing_layer, in_features, out_features, is_feedforward, get_accessors) ==
  LET n == IA3LwLen(in_features, out_features, is_feedforward)
  IN [cls |-> cls, existing_layer |-> existing_layer,
      is_feedforward |-> is_feedforward,
      in_features |-> in_features, out_features |-> out_features,
      ia3_lw |-> Tensor(<<1, n>>, [k \in 1..n |-> 0], "float32"),
      get_accessors |-> get_accessors]

\* IA3Adapter1 / IA3Adapter2 __init__: ia3_lw is ones of shape (1, out_features)
\* `if not is_feedforward`, else (1, in_features).  get_accessors tells
\* whether get_weight and get_bias exist on the object
IA3AdapterLayer(cls, existing_layer, in_features, out_features, is_feedforward, get_accessors) ==
  LET n == IA3LwLen(in_features, out_features, is_feedforward)
  IN [cls |-> cls, existing_layer |-> existing_layer,
      is_feedforward |-> is_feedforward,
      in_features |-> in_features, out_features |-> out_features,
      ia3_lw |-> Tensor(<<1, n>>, [k \in 1..n |-> 1], "float32"),
      get_accessors |-> get_accessors]

\* self.get_weight() of IA3Adapter2: the class defines no such method; where
\* one is supplied it returns the wrapped layer's weight
get_weight(layer) ==
  IF layer.get_accessors = "missing" THEN Raise("AttributeError")
  ELSE layer.existing_layer.weight

\* self.get_bias() of IA3Adapter2, likewise
get_bias(layer) ==
  IF layer.get_accessors = "missing" THEN Raise("AttributeError")
  ELSE layer.existing_layer.bias

\* a faulty variant: the scaling matrix multiplies on the wrong side
get_equivalent_weight_Swapped(layer) ==
  LET mat == get_weight(layer)
  IN IF ~Truthy(layer.is_feedforward)
     THEN matmul(mat, diag(Flat(layer.ia3_lw)))
     ELSE matmul(diag(Flat(layer.ia3_lw)), mat)

\* IA3Adapter2.get_equivalent_weight
get_equivalent_weight(layer) ==
  LET mat == get_weight(layer)
  IN IF ~Truthy(layer.is_feedforward)
     THEN matmul(diag(Flat(layer.ia3_lw)), mat)
     ELSE matmul(mat, diag(Flat(layer.ia3_lw)))

\* IA3Adapter2.get_equivalent_bias
get_equivalent_bias(layer) ==
  LET mat == get_bias(layer)
  IN IF mat = None THEN None
     ELSE IF ~Truthy(layer.is_feedforward) THEN mul(mat, squeeze(layer.ia3_lw))
     ELSE mat

RECURSIVE forward(_, _)

\* LoRAAdapter.forward
LoRAAdapter_forward(layer, input) ==
  IF layer.r > 0
  THEN IF Len(input.shape) # 3 THEN Raise("ValueError")
       ELSE LET in_features == input.shape[3]
                x == to(view(input, in_features), "bfloat16")
                lora_out == MulScalar(
                              Transpose(matmul(layer.lora_B,
                                               matmul(layer.lora_A, Transpose(x)))),
                              layer.scaling)
            IN IF IsRaise(lora_out) THEN lora_out
               ELSE add(forward(layer.existing_layer, x), lora_out)
  ELSE forward(layer.existing_layer, input)

\* IA3Adapter1.forward
IA3Adapter1_forward(layer, x) ==
  IF ~Truthy(layer.is_feedforward)
  THEN mul(forward(layer.existing_layer, x), layer.ia3_lw)
  ELSE forward(layer.existing_layer, mul(x, layer.ia3_lw))

\* a faulty variant: the forward pass of IA3Adapter1 in place of the folded one
IA3Adapter2_forward_Unfolded(layer, x) ==
  IF ~Truthy(layer.is_feedforward)
  THEN mul(forward(layer.existing_layer, x), layer.ia3_lw)
  ELSE forward(layer.existing_layer, mul(x, layer.ia3_lw))

\* IA3Adapter2.forward
IA3Adapter2_forward(layer, x) ==
  linear(x, get_equivalent_weight(layer), get_equivalent_bias(layer))

\* layer(x)
forward(layer, x) ==
  CASE layer.cls = "Linear" -> linear(x, layer.weight, layer.bias)
    [] layer.cls = "LoRAAdapter" -> LoRAAdapter_forward(layer, x)
    [] layer.cls = "IA3Adapter1" -> IA3Adapter1_forward(layer, x)
    [] layer.cls = "IA3Adapter2" -> IA3Adapter2_forward(layer, x)

\* module.to(dtype): every floating point parameter cast, wrapped layers too
RECURSIVE CastLayer(_, _)
CastLayer(layer, dtype) ==
  CASE layer.cls = "Linear" ->
         [layer EXCEPT !.weight = to(@, dtype),
                       !.bias = IF @ = None THEN None ELSE to(@, dtype)]
    [] layer.cls = "LoRAAdapter" ->
         [layer EXCEPT !.existing_layer = CastLayer(@, dtype),
                       !.lora_A = IF layer.r > 0 THEN to(@, dtype) ELSE @,
                       !.lora_B = IF layer.r > 0 THEN to(@, dtype) ELSE @]
    [] OTHER ->
         [layer EXCEPT !.existing_layer = CastLayer(@, dtype),
                       !.ia3_lw = to(@, dtype)]

(***************************************************************************)
(* The notebooks.  Each loads its model and then calls its functions; the  *)
(* cells of a notebook can be run in any order and any number of times.    *)
(***************************************************************************)
\* the is_feedforward argument of both IA3 injection cells
NotebookIsFeedforward == PyList(<<"False", "False", "True">>)

\* match_on lists tried in the LoRA notebook: the cell's own, then lists whose
\* keys overlap, name a container, name a key of a wrapped layer, a direct
\* child of the model, and nothing
LoRAMatchOn ==
  { <<"q_proj", "k_proj", "v_proj">>, <<"k_proj", "existing_layer">>,
    <<"self_attn">>, <<"lm_head">>, <<"fc1", "c1">>, <<"no_such_layer">> }

\* adapter_fn lambdas tried in the LoRA notebook (the cell's is r = 8, alpha = 8)
LoRAFns ==
  { [cls |-> "LoRAAdapter", r |-> 8, lora_alpha |-> 8],
    [cls |-> "LoRAAdapter", r |-> 0, lora_alpha |-> 1] }

\* match_on lists tried in the IA3 notebook
IA3MatchOn ==
  { <<"k_proj", "v_proj", "down_proj">>, <<"k_proj", "proj">>,
    <<"mlp">>, <<"lm_head">>, <<"existing_layer">> }

\* adapter_fn lambdas tried in the IA3 notebook: the two cells', and the
\* constructor's default is_feedforward = False
IA3Fns ==
  { [cls |-> "IA3Adapter1", is_feedforward |-> NotebookIsFeedforward],
    [cls |-> "IA3Adapter2", is_feedforward |-> NotebookIsFeedforward],
    [cls |-> "IA3Adapter1", is_feedforward |-> PyBool(FALSE)] }

NoArgs == [match_on |-> <<>>, fn |-> [cls |-> "none"]]

Called(op, match_on, fn, exc, ret) ==
  [op |-> op, match_on |-> match_on, fn |-> fn, exc |-> exc, ret |-> ret]

\* a call that takes neither match_on nor adapter_fn
CalledPlain(op, exc, ret) == Called(op, NoArgs.match_on, NoArgs.fn, exc, ret)

\* the state after the cell that loads the notebook's model
Loaded(notebook, m, loaders) ==
  /\ nb = notebook
  /\ train_dataloader \in loaders
  /\ \E loaded \in {from_pretrained(m)} : model = loaded /\ pre = loaded
  /\ call = CalledPlain("from_pretrained", "none", <<>>)
  /\ ncalls = 0
  /\ printed = <<>>
  /\ ns = <<>>

(***************************************************************************)
(* The LoRA notebook (facebook/opt-125m).                                  *)
(***************************************************************************)
\* fine-tuning is left to the library's Trainer: no dataloader of its own
InitLoRA == Loaded("LoRA", OPTForCausalLM(NumLayersSmall), {<<>>})

\* inject_adapter(causal_model, match_on, adapter_fn)
InjectAdapterLoRA ==
  /\ ncalls < MaxCalls
  /\ \E match_on \in LoRAMatchOn, fn \in LoRAFns :
       LET r == inject_adapter_LoRA(model, match_on, fn)
       IN /\ model' = r.m
          /\ call' = Called("inject_adapter", match_on, fn, r.exc, <<>>)
  /\ pre' = model
  /\ ncalls' = ncalls + 1
  /\ UNCHANGED <<nb, printed, train_dataloader, ns>>

\* mark_only_lora_as_trainable(causal_model)
MarkOnlyLoraAsTrainable ==
  /\ ncalls < MaxCalls
  /\ model' = mark_only_lora_as_trainable(model)
  /\ call' = CalledPlain("mark_only_lora_as_trainable", "none", <<>>)
  /\ pre' = model
  /\ ncalls' = ncalls + 1
  /\ UNCHANGED <<nb, printed, train_dataloader, ns>>

NextLoRA ==
  \/ InjectAdapterLoRA
  \/ MarkOnlyLoraAsTrainable

SpecLoRA == InitLoRA /\ [][NextLoRA]_vars

(***************************************************************************)
(* The IA3 notebook (google/gemma-2b).                                     *)
(***************************************************************************)
InitIA3 == Loaded("IA3", GemmaForCausalLM(NumLayersSmall), {<<>>})

\* inject_adapter(model, match_on, adapter_fn)
InjectAdapterIA3 ==
  /\ ncalls < MaxCalls
  /\ \E match_on \in IA3MatchOn, fn \in IA3Fns :
       LET r == inject_adapter_IA3(model, match_on, fn)
       IN /\ model' = r.m
          /\ call' = Called("inject_adapter", match_on, fn, r.exc, <<>>)
  /\ pre' = model
  /\ ncalls' = ncalls + 1
  /\ UNCHANGED <<nb, printed, train_dataloader, ns>>

\* total_params, trainable_params = ia3_params(model)
Ia3Params ==
  /\ ncalls < MaxCalls
  /\ LET r == ia3_params(model)
     IN /\ model' = r.m
        /\ call' = CalledPlain("ia3_params", "none", r.ret)
  /\ pre' = model
  /\ ncalls' = ncalls + 1
  /\ UNCHANGED <<nb, printed, train_dataloader, ns>>

NextIA3 ==
  \/ InjectAdapterIA3
  \/ Ia3Params

SpecIA3 == InitIA3 /\ [][NextIA3]_vars

(***************************************************************************)
(* The helper functions of the injection cells, called on their own on the *)
(* loaded model of either adapter notebook.                                *)
(***************************************************************************)
\* the keys looked for: names of layers, of containers, a ModuleList index, a
\* piece of a name, a separator, the empty key, the attribute of an adapter,
\* and a key nothing contains
MatchKeys ==
  { "k_proj", "proj", "self_attn", "mlp", "layers.0", "0", "lm_head", "model",
    ".", "", "existing_layer", "no_such_layer" }

\* the dotted paths replaced, where the model has them: a direct child of the
\* model, an entry of a ModuleList, the ModuleList, layers below an entry, and
\* the layer an adapter wraps
ReplacePaths ==
  { "lm_head", "model.decoder.layers.0", "model.layers.0",
    "model.decoder.layers", "model.layers",
    "model.decoder.layers.0.self_attn.k_proj", "model.layers.0.mlp.down_proj",
    "model.decoder.layers.0.self_attn", "model.layers.0.mlp",
    "model.decoder.layers.0.self_attn.k_proj.existing_layer",
    "model.layers.0.mlp.down_proj.existing_layer" }

\* the dotted names of the model's modules
ModuleNames(m) == {e.name : e \in Range(named_modules(m))}

\* the modules put in place of module current: a new nn.Identity(), and the
\* adapter the notebook's lambda builds around current where it can
NewModules(m, notebook, current) ==
  LET identity == Allocate(m, BareModule("Identity"), <<>>)
      made == adapter_fn(m, IF notebook = "LoRA"
                            THEN [cls |-> "LoRAAdapter", r |-> 8, lora_alpha |-> 8]
                            ELSE [cls |-> "IA3Adapter1",
                                  is_feedforward |-> NotebookIsFeedforward],
                         current)
  IN {[m |-> identity, id |-> Last(identity), cls |-> "Identity"]}
       \cup (IF made.exc = "none"
              THEN {[m |-> made.m, id |-> made.id, cls |-> made.m.mods[made.id].cls]}
              ELSE {})

InitSubmodules ==
  \/ Loaded("LoRA", OPTForCausalLM(NumLayersSmall), {<<>>})
  \/ Loaded("IA3", GemmaForCausalLM(NumLayersSmall), {<<>>})

\* matching_layers = match_submodules(model, key)
MatchSubmodules ==
  /\ ncalls < MaxCalls
  /\ \E key \in MatchKeys :
       call' = Called("match_submodules", <<key>>, NoArgs.fn, "none",
                      <<match_submodules(model, key)>>)
  /\ pre' = model
  /\ ncalls' = ncalls + 1
  /\ UNCHANGED <<model, nb, printed, train_dataloader, ns>>

\* replace_submodule(model, module_path, new_module) on the path of a
\* submodule of the model
ReplaceSubmodule ==
  /\ ncalls < MaxCalls
  /\ \E module_path \in ReplacePaths \cap ModuleNames(model) :
       \E new \in NewModules(model, nb, get_submodule(model, module_path)) :
         \E r \in {replace_submodule(new.m, module_path, new.id)} :
           /\ model' = r.m
           /\ call' = Called("replace_submodule", <<module_path>>, [cls |-> new.cls],
                            r.exc, <<new.id>>)
  /\ pre' = model
  /\ ncalls' = ncalls + 1
  /\ UNCHANGED <<nb, printed, train_dataloader, ns>>

NextSubmodules ==
  \/ MatchSubmodules
  \/ ReplaceSubmodule

SpecSubmodules == InitSubmodules /\ [][NextSubmodules]_vars

(***************************************************************************)
(* The quantization notebook (distilbert-base-uncased).                    *)
(***************************************************************************)
\* the train dataloaders: one loss per batch, possibly no batch at all
LossRuns ==
  UNION {[1..n -> 1..MaxLoss] : n \in 0..MaxBatches}

InitQuantization ==
  Loaded("Quantization", DistilBertForSequenceClassification(NumLayersSmall), LossRuns)

\* set_qconfig_for_model(model)
SetQconfigForModel ==
  /\ ncalls < MaxCalls
  /\ model' = set_qconfig_for_model(model)
  /\ call' = CalledPlain("set_qconfig_for_model", "none", <<>>)
  /\ pre' = model
  /\ ncalls' = ncalls + 1
  /\ UNCHANGED <<nb, printed, train_dataloader, ns>>

\* the "Epoch" lines among the printed ones
EpochLines(out) == SelectSeq(out, LAMBDA l : l.line = "Epoch")

\* train_model(model, train_dataloader, num_epochs)
TrainModel ==
  /\ ncalls < MaxCalls
  /\ \E num_epochs \in 0..(MaxEpochs - Len(EpochLines(printed))) :
       LET r == train_model(model, train_dataloader, num_epochs)
       IN /\ model' = r.m
          /\ printed' = printed \o r.out
          /\ call' = CalledPlain("train_model", r.exc, <<num_epochs>>)
  /\ pre' = model
  /\ ncalls' = ncalls + 1
  /\ UNCHANGED <<nb, train_dataloader, ns>>

\* evaluate_model(model, eval_dataloader)
EvaluateModel ==
  /\ ncalls < MaxCalls
  /\ \E correct \in BOOLEAN :
       LET r == evaluate_model(model, correct)
       IN /\ model' = r.m
          /\ printed' = printed \o r.out
          /\ call' = CalledPlain("evaluate_model", "none", <<>>)
  /\ pre' = model
  /\ ncalls' = ncalls + 1
  /\ UNCHANGED <<nb, train_dataloader, ns>>

NextQuantization ==
  \/ SetQconfigForModel
  \/ TrainModel
  \/ EvaluateModel

SpecQuantization == InitQuantization /\ [][NextQuantization]_vars

(***************************************************************************)
(* The quantization notebook's section "Quantization Aware Training", its  *)
(* statements run from top to bottom; a statement that raises ends the run.*)
(* ncalls is the number of statements run after the first load.            *)
(***************************************************************************)
InitQAT ==
  Loaded("Quantization", DistilBertForSequenceClassification(NumLayersSmall), LossRuns)

\* the statement after ncalls = n statements runs next
At(n) == ncalls = n /\ call.exc = "none"

\* train_model(model, train_dataloader, num_epochs=20), normal training
TrainNormally ==
  /\ At(0)
  /\ \E num_epochs \in 0..MaxEpochs :
       \E r \in {train_model(model, train_dataloader, num_epochs)} :
         /\ model' = r.m
         /\ printed' = printed \o r.out
         /\ call' = CalledPlain("train_model", r.exc, <<num_epochs>>)
  /\ pre' = model
  /\ ncalls' = ncalls + 1
  /\ UNCHANGED <<nb, train_dataloader, ns>>

\* evaluate_model(model, eval_dataloader), the cell's second statement
EvaluateNormally ==
  /\ At(1)
  /\ \E correct \in BOOLEAN :
       \E r \in {evaluate_model(model, correct)} :
         /\ model' = r.m
         /\ printed' = printed \o r.out
  /\ call' = CalledPlain("evaluate_model", "none", <<>>)
  /\ pre' = model
  /\ ncalls' = ncalls + 1
  /\ UNCHANGED <<nb, train_dataloader, ns>>

\* model = DistilBertForSequenceClassification.from_pretrained(model_name,
\* num_labels=2): a new model, the trained one is dropped
RecreateModel ==
  /\ At(2)
  /\ model' = from_pretrained(DistilBertForSequenceClassification(NumLayersSmall))
  /\ call' = CalledPlain("from_pretrained", "none", <<>>)
  /\ pre' = model
  /\ ncalls' = ncalls + 1
  /\ UNCHANGED <<nb, printed, train_dataloader, ns>>

\* set_qconfig_for_model(model)
SetQconfigForQAT ==
  /\ At(3)
  /\ model' = set_qconfig_for_model(model)
  /\ call' = CalledPlain("set_qconfig_for_model", "none", <<>>)
  /\ pre' = model
  /\ ncalls' = ncalls + 1
  /\ UNCHANGED <<nb, printed, train_dataloader, ns>>

\* model.train()
ModelTrain ==
  /\ At(4)
  /\ model' = SetTraining(model, TRUE)
  /\ call' = CalledPlain("model.train", "none", <<>>)
  /\ pre' = model
  /\ ncalls' = ncalls + 1
  /\ UNCHANGED <<nb, printed, train_dataloader, ns>>

\* model = torch.ao.quantization.prepare_qat(model, inplace=False); the call
\* is recorded with the identity of the model it returned
PrepareQAT ==
  /\ At(5)
  /\ \E r \in {prepare_qat(model)} :
       /\ model' = r.m
       /\ call' = CalledPlain("prepare_qat", r.exc, <<r.m.root>>)
  /\ pre' = model
  /\ ncalls' = ncalls + 1
  /\ UNCHANGED <<nb, printed, train_dataloader, ns>>

\* train_model(model, train_dataloader, num_epochs=20), the last cell
TrainPrepared ==
  /\ At(6)
  /\ \E num_epochs \in 0..MaxEpochs :
       \E r \in {train_model(model, train_dataloader, num_epochs)} :
         /\ model' = r.m
         /\ printed' = printed \o r.out
         /\ call' = CalledPlain("train_model", r.exc, <<num_epochs>>)
  /\ pre' = model
  /\ ncalls' = ncalls + 1
  /\ UNCHANGED <<nb, train_dataloader, ns>>

NextQAT ==
  \/ TrainNormally
  \/ EvaluateNormally
  \/ RecreateModel
  \/ SetQconfigForQAT
  \/ ModelTrain
  \/ PrepareQAT
  \/ TrainPrepared

SpecQAT == InitQAT /\ [][NextQAT]_vars

(***************************************************************************)
(* The LoRA notebook's injection cell on the full-size architecture.       *)
(***************************************************************************)
\* `sum(p.numel() for p in causal_model.parameters() if p.requires_grad)` over
\* the identities ps of causal_model.parameters()
RequiresGradNumel(m, ps) ==
  Sum([i \in DOMAIN ps |->
         IF m.pars[ps[i]].requires_grad THEN m.pars[ps[i]].numel ELSE 0])

\* the cell's two prints and its values: [m, exc, ret, out]
CellPrints(m, total_params, trainable_params) ==
  [m |-> m, exc |-> "none", ret |-> <<total_params, trainable_params>>,
   out |-> << [line |-> "Total Parameters", n |-> total_params],
              [line |-> "Trainable Parameters", n |-> trainable_params] >>]

\* total_params and trainable_params of the marked model, then the prints
CellCounts(marked) ==
  CellPrints(marked, TotalNumel(marked), RequiresGradNumel(marked, parameters(marked)))

\* the cell from its second statement on, given what inject_adapter left:
\* mark_only_lora_as_trainable, the two counts, the two prints; an exception
\* of inject_adapter ends the cell
CellAfterInjection(injected) ==
  IF injected.exc # "none"
  THEN [m |-> injected.m, exc |-> injected.exc, ret |-> <<>>, out |-> <<>>]
  ELSE CellCounts(mark_only_lora_as_trainable(injected.m))

\* the cell: inject_adapter, mark_only_lora_as_trainable, then
\*   total_params = sum(p.numel() for p in causal_model.parameters())
\*   trainable_params = sum(p.numel() for p in ... if p.requires_grad)
\* and the two prints; [m, exc, ret, out]
LoRAInjectionCell(m, match_on, fn) ==
  CellAfterInjection(inject_adapter_LoRA(m, match_on, fn))

\* decoder depths the cell is run on, the checkpoint's own among them
LayerCounts == {1, 2, 3, OPTLayers}

\* ranks the cell is run with (the notebook's is 8)
Ranks == {1, 2, 4, 8, 16, 32}

\* match_on lists the cell is run with (the notebook's is the first)
CellMatchOn ==
  { <<"q_proj", "k_proj", "v_proj">>, <<"q_proj">>, <<"q_proj", "v_proj">>,
    <<"fc1">>, <<"out_proj", "fc2">> }

InitCell ==
  \E n \in LayerCounts : Loaded("LoRA", OPTForCausalLM(n), {<<>>})

\* the injection cell, run once on the freshly loaded model
RunLoRAInjectionCell ==
  /\ call.op = "from_pretrained"
  /\ \E match_on \in CellMatchOn, r \in Ranks :
       \E c \in {LoRAInjectionCell(model, match_on,
                                   [cls |-> "LoRAAdapter", r |-> r, lora_alpha |-> r])} :
         /\ model' = c.m
         /\ printed' = printed \o c.out
         /\ call' = Called("injection_cell", match_on,
                           [cls |-> "LoRAAdapter", r |-> r, lora_alpha |-> r],
                           c.exc, c.ret)
  /\ pre' = model
  /\ ncalls' = ncalls + 1
  /\ UNCHANGED <<nb, train_dataloader, ns>>

NextCell == RunLoRAInjectionCell

SpecCell == InitCell /\ [][NextCell]_vars

(***************************************************************************)
(* The IA3 notebook's two injection cells on the full-size architecture.   *)
(***************************************************************************)
\* the cell's two prints of the counts ia3_params returned
IA3CellCounts(m, counts) == CellPrints(m, counts[1], counts[2])

\* an injection cell from its second statement on, given what inject_adapter
\* left: ia3_params and the two prints; an exception of inject_adapter ends
\* the cell
IA3CellAfterInjection(injected) ==
  IF injected.exc # "none"
  THEN [m |-> injected.m, exc |-> injected.exc, ret |-> <<>>, out |-> <<>>]
  ELSE IA3CellCounts(injected.m, ia3_params(injected.m).ret)

\* the cell: inject_adapter, total_params, trainable_params = ia3_params(model)
\* and the two prints; [m, exc, ret, out]
IA3InjectionCell(m, match_on, fn) ==
  IA3CellAfterInjection(inject_adapter_IA3(m, match_on, fn))

\* decoder depths the cells are run on, the checkpoint's own among them
GemmaLayerCounts == {1, GemmaLayers}

\* match_on lists the cells are run with (the notebook's is the first)
IA3CellMatchOn ==
  { <<"k_proj", "v_proj", "down_proj">>, <<"k_proj">>, <<"down_proj">>,
    <<"k_proj", "v_proj">> }

\* is_feedforward arguments the first cell is run with (the notebook's is the
\* first)
IA3CellIsFeedforward == {NotebookIsFeedforward, PyBool(FALSE), PyBool(TRUE)}

InitIA3Cells ==
  \E n \in GemmaLayerCounts : Loaded("IA3", GemmaForCausalLM(n), {<<>>})

\* the first injection cell (IA3Adapter1), run on the freshly loaded model
RunFirstIA3Cell ==
  /\ call.op = "from_pretrained"
  /\ \E match_on \in IA3CellMatchOn, ff \in IA3CellIsFeedforward :
       \E c \in {IA3InjectionCell(model, match_on,
                                  [cls |-> "IA3Adapter1", is_feedforward |-> ff])} :
         /\ model' = c.m
         /\ printed' = printed \o c.out
         /\ call' = Called("injection_cell", match_on,
                           [cls |-> "IA3Adapter1", is_feedforward |-> ff],
                           c.exc, c.ret)
  /\ pre' = model
  /\ ncalls' = ncalls + 1
  /\ UNCHANGED <<nb, train_dataloader, ns>>

\* the second injection cell (IA3Adapter2), run on the model the first cell
\* left
RunSecondIA3Cell ==
  /\ ncalls = 1 /\ call.exc = "none"
  /\ \E match_on \in IA3CellMatchOn :
       \E c \in {IA3InjectionCell(model, match_on,
                                  [cls |-> "IA3Adapter2",
                                   is_feedforward |-> NotebookIsFeedforward])} :
         /\ model' = c.m
         /\ printed' = printed \o c.out
         /\ call' = Called("injection_cell", match_on,
                           [cls |-> "IA3Adapter2",
                            is_feedforward |-> NotebookIsFeedforward],
                           c.exc, c.ret)
  /\ pre' = model
  /\ ncalls' = ncalls + 1
  /\ UNCHANGED <<nb, train_dataloader, ns>>

NextIA3Cells ==
  \/ RunFirstIA3Cell
  \/ RunSecondIA3Cell

SpecIA3Cells == InitIA3Cells /\ [][NextIA3Cells]_vars

(***************************************************************************)
(* Forward passes of single adapted layers.                                *)
(***************************************************************************)
\* the elements of the tensors fed in: small integers of both signs
Entry(seed, k) == ((seed * k * k + 3 * k + seed) % 5) - 2

Generated(seed, shape, dtype) ==
  Tensor(shape, [k \in 1..Prod(shape) |-> Entry(seed, k)], dtype)

Seeds == {1, 2}

\* the inputs of a layer with in_features columns: a vector, a batch of rows,
\* a batch of sequences
InputShapes(in_features) ==
  {<<in_features>>}
    \cup {<<n, in_features>> : n \in 1..MaxLead}
    \cup {<<b, t, in_features>> : b \in 1..MaxLead, t \in 1..MaxLead}

Inputs(in_features, dtype) ==
  {Generated(seed, shape, dtype) : seed \in Seeds, shape \in InputShapes(in_features)}

\* the wrapped nn.Linear layers: any in_features and out_features, with or
\* without a bias
LinearLayers(dtypes) ==
  {LinearLayer(Generated(1, <<d[2], d[1]>>, dtype),
               IF hasBias THEN Generated(2, <<d[2]>>, dtype) ELSE None) :
     d \in (1..MaxFeatures) \X (1..MaxFeatures), hasBias \in BOOLEAN, dtype \in dtypes}

\* the variables of the notebooks that load whole models stay idle
NoModel(notebook) ==
  /\ nb = notebook
  /\ model = EmptyHeap /\ pre = EmptyHeap
  /\ ncalls = 0 /\ printed = <<>> /\ train_dataloader = <<>>

\* r and lora_alpha of the adapters built: the default r = 0, and two ranks
\* with lora_alpha a multiple of r
LoRAConfigs ==
  { [r |-> 0, lora_alpha |-> 1], [r |-> 1, lora_alpha |-> 2], [r |-> 2, lora_alpha |-> 2] }

InitLoRAForward ==
  /\ NoModel("LoRA")
  /\ call = CalledPlain("LoRAAdapter", "none", <<>>)
  /\ \E lin \in LinearLayers(Dtypes), cfg \in LoRAConfigs, seed \in Seeds :
       ns = [layer |-> LoRAAdapterLayer(lin, lin.weight.shape[2], lin.weight.shape[1],
                                        cfg.r, cfg.lora_alpha,
                                        Generated(seed, <<cfg.r, lin.weight.shape[2]>>,
                                                  "float32"))]

\* the exception a result stands for, "none" for a tensor
ExcOf(t) == IF IsRaise(t) THEN t.dtype ELSE "none"

\* y = adapter(x) on an input of the wrapped layer's width and dtype; the call
\* is recorded with <<x, y>>
Forward ==
  /\ \E x \in Inputs(ns.layer.existing_layer.weight.shape[2],
                     ns.layer.existing_layer.weight.dtype) :
       LET y == forward(ns.layer, x)
       IN call' = CalledPlain("forward", ExcOf(y), <<x, y>>)
  /\ UNCHANGED <<model, pre, ncalls, nb, printed, train_dataloader, ns>>

\* adapter.reset_parameters()
ResetParameters ==
  /\ ns.layer.r > 0
  /\ \E seed \in Seeds :
       ns' = [ns EXCEPT !.layer =
                reset_parameters(@, Generated(seed, @.lora_A.shape, @.lora_A.dtype))]
  /\ call' = CalledPlain("reset_parameters", "none", <<>>)
  /\ UNCHANGED <<model, pre, ncalls, nb, printed, train_dataloader>>

\* a training step of the library's Trainer: the trainable lora_A and lora_B
\* take new values
OptimizerStepLoRA ==
  /\ ns.layer.r > 0
  /\ \E seed \in Seeds :
       ns' = [ns EXCEPT !.layer.lora_A = Generated(seed, @.shape, @.dtype),
                        !.layer.lora_B = Generated(seed, @.shape, @.dtype)]
  /\ call' = CalledPlain("step", "none", <<>>)
  /\ UNCHANGED <<model, pre, ncalls, nb, printed, train_dataloader>>

\* causal_model = causal_model.to(torch.bfloat16)
CastToBfloat16 ==
  /\ ns' = [ns EXCEPT !.layer = CastLayer(@, "bfloat16")]
  /\ call' = CalledPlain("to", "none", <<>>)
  /\ UNCHANGED <<model, pre, ncalls, nb, printed, train_dataloader>>

NextLoRAForward ==
  \/ Forward
  \/ ResetParameters
  \/ OptimizerStepLoRA
  \/ CastToBfloat16

SpecLoRAForward == InitLoRAForward /\ [][NextLoRAForward]_vars

\* the is_feedforward arguments: the constructor's default, True, and the
\* list the injection cells pass
IsFeedforwardArgs == {PyBool(FALSE), PyBool(TRUE), NotebookIsFeedforward}

\* the two adapter classes; IA3Adapter2 as the notebook defines it, and with
\* get_weight and get_bias supplied
IA3Kinds ==
  { [cls |-> "IA3Adapter1", get_accessors |-> "none"],
    [cls |-> "IA3Adapter2", get_accessors |-> "missing"],
    [cls |-> "IA3Adapter2", get_accessors |-> "supplied"] }

InitIA3Forward ==
  /\ NoModel("IA3")
  /\ call = CalledPlain("IA3Adapter", "none", <<>>)
  /\ \E lin \in LinearLayers({"float32"}), kind \in IA3Kinds, ff \in IsFeedforwardArgs :
       ns = [layer |-> IA3AdapterLayer(kind.cls, lin, lin.weight.shape[2],
                                       lin.weight.shape[1], ff, kind.get_accessors)]

\* a training step: the trainable ia3_lw takes new values
OptimizerStepIA3 ==
  /\ \E seed \in Seeds :
       ns' = [ns EXCEPT !.layer.ia3_lw = Generated(seed, @.shape, @.dtype)]
  /\ call' = CalledPlain("step", "none", <<>>)
  /\ UNCHANGED <<model, pre, ncalls, nb, printed, train_dataloader>>

NextIA3Forward ==
  \/ Forward
  \/ OptimizerStepIA3

SpecIA3Forward == InitIA3Forward /\ [][NextIA3Forward]_vars

(***************************************************************************)
(* The quantization notebook's cell on the memory of the dtypes.           *)
(***************************************************************************)
\* a faulty variant: half precision counted at full width
element_size_Wide(dtype) ==
  CASE dtype \in {"float32", "float16", "bfloat16"} -> 4
    [] dtype \in {"int8", "qint8"} -> 1

\* tensor.element_size(): bytes per element
element_size(dtype) ==
  CASE dtype = "float32" -> 4
    [] dtype \in {"float16", "bfloat16"} -> 2
    [] dtype \in {"int8", "qint8"} -> 1

\* tensor.nelement() / tensor.numel()
nelement(t) == Prod(t.shape)

\* torch.quantize_per_tensor(t, scale = 1 / per_unit, zero_point, torch.qint8):
\* round(x / scale) + zero_point, clamped to the int8 range
quantize_per_tensor(t, per_unit, zero_point) ==
  Tensor(t.shape,
         [k \in DOMAIN t.data |->
            LET q == t.data[k] * per_unit + zero_point
            IN IF q < -128 THEN -128 ELSE IF q > 127 THEN 127 ELSE q],
         "qint8")

\* q.int_repr(): the stored int8 values
int_repr(q) == Tensor(q.shape, q.data, "int8")

\* the side of the notebook's tensor: torch.randn(100, 100)
NotebookDim == 100

\* the reciprocal of the notebook's scale = 0.1
PerUnit == 10

Dims == (1..MaxDim) \cup {NotebookDim}

MemoryLine(name, bytes) == [line |-> "Memory (" \o name \o ")", bytes |-> bytes]

InitMemory ==
  /\ NoModel("Quantization")
  /\ call = CalledPlain("cell", "none", <<>>)
  /\ ns = [tensor |-> Unset, tensor_fp16 |-> Unset, tensor_int8 |-> Unset]

\* tensor = torch.randn(rows, cols, dtype = torch.float32), and its print
CreateTensor ==
  /\ ns.tensor = Unset
  /\ \E rows \in Dims, cols \in Dims, seed \in Seeds :
       LET tensor == MulScalar(Generated(seed, <<rows, cols>>, "float32"), 7)
       IN /\ ns' = [ns EXCEPT !.tensor = tensor]
          /\ printed' = Append(printed,
                          MemoryLine("float32", element_size(tensor.dtype) * nelement(tensor)))
  /\ call' = CalledPlain("randn", "none", <<>>)
  /\ UNCHANGED <<model, pre, ncalls, nb, train_dataloader>>

\* tensor_fp16 = tensor.to(dtype = torch.float16), and its print
ToFloat16 ==
  /\ ns.tensor # Unset /\ ns.tensor_fp16 = Unset
  /\ LET tensor_fp16 == to(ns.tensor, "float16")
     IN /\ ns' = [ns EXCEPT !.tensor_fp16 = tensor_fp16]
        /\ printed' = Append(printed,
                        MemoryLine("float16",
                                   element_size(tensor_fp16.dtype) * nelement(tensor_fp16)))
  /\ call' = CalledPlain("to", "none", <<>>)
  /\ UNCHANGED <<model, pre, ncalls, nb, train_dataloader>>

\* tensor_int8 = torch.quantize_per_tensor(tensor, scale = 0.1, zero_point = 0,
\* dtype = torch.qint8), and its print
QuantizePerTensor ==
  /\ ns.tensor_fp16 # Unset /\ ns.tensor_int8 = Unset
  /\ LET tensor_int8 == quantize_per_tensor(ns.tensor, PerUnit, 0)
     IN /\ ns' = [ns EXCEPT !.tensor_int8 = tensor_int8]
        /\ printed' = Append(printed,
                        MemoryLine("int8",
                                   element_size(int_repr(tensor_int8).dtype)
                                     * nelement(tensor_int8)))
  /\ call' = CalledPlain("quantize_per_tensor", "none", <<>>)
  /\ UNCHANGED <<model, pre, ncalls, nb, train_dataloader>>

NextMemory ==
  \/ CreateTensor
  \/ ToFloat16
  \/ QuantizePerTensor

SpecMemory == InitMemory /\ [][NextMemory]_vars

(***************************************************************************)
(* The IA3 notebook's activation-memory cell.                              *)
(***************************************************************************)
\* a Python float that is an integer over a power of two, kept exactly as
\* [num, den] in lowest terms
RECURSIVE Dyadic(_, _)
Dyadic(num, den) ==
  IF den > 1 /\ num % 2 = 0 THEN Dyadic(num \div 2, den \div 2)
  ELSE [num |-> num, den |-> den]

\* 1024 ** 3
BytesPerGB == 1073741824

\* bytes_per_float = 2
bytes_per_float == 2

\* calculate_memory_kv_down_proj(batch_size, seq_len, hidden_dim,
\* intermediate_dim); hidden_dim_kv is the notebook's global of that name,
\* read when the function runs
calculate_memory_kv_down_proj(batch_size, seq_len, hidden_dim, intermediate_dim, hidden_dim_kv) ==
  Dyadic(batch_size * seq_len * hidden_dim_kv * bytes_per_float * 2
           + (batch_size * seq_len * intermediate_dim
                + batch_size * seq_len * hidden_dim) * bytes_per_float,
         BytesPerGB)

\* k * f for an int k and a float f
FloatTimes(k, f) == Dyadic(k * f.num, f.den)

RECURSIVE FracDigits(_, _, _, _)
\* the next k decimal digits of rem / den appended to acc, and what is left
FracDigits(rem, den, k, acc) ==
  IF k = 0 THEN [frac |-> acc, rem |-> rem]
  ELSE FracDigits((rem * 10) % den, den, k - 1, acc * 10 + ((rem * 10) \div den))

\* the value in millionths, rounded to nearest, ties to even
Millionths(whole, d, den) ==
  IF 2 * d.rem > den \/ (2 * d.rem = den /\ d.frac % 2 = 1)
  THEN whole * 1000000 + d.frac + 1
  ELSE whole * 1000000 + d.frac

\* n below 10^6 as six digits
SixDigits(n) == SubSeq("000000", 1, 6 - Len(ToString(n))) \o ToString(n)

FixedPoint(micro) == ToString(micro \div 1000000) \o "." \o SixDigits(micro % 1000000)

\* f"{x:.6f}" for a float x >= 0
Format6f(x) ==
  FixedPoint(Millionths(x.num \div x.den, FracDigits(x.num % x.den, x.den, 6, 0), x.den))

\* values the cell's globals are given (the notebook's are 32, 216, 256, 2048,
\* 16384)
BatchSizes == {1, 2, 32}
SeqLens == {1, 216}
HiddenDimsKV == {8, 256}
HiddenDims == {16, 2048}
IntermediateDims == {24, 64, 16384}

InitMemoryAnalysis ==
  /\ nb = "IA3"
  /\ train_dataloader = <<>>
  /\ model = EmptyHeap
  /\ pre = EmptyHeap
  /\ call = CalledPlain("def calculate_memory_kv_down_proj", "none", <<>>)
  /\ ncalls = 0
  /\ printed = <<>>
  /\ ns = <<>>

\* batch_size = ..; seq_len = ..; hidden_dim_kv = ..; hidden_dim = ..;
\* intermediate_dim = ..
AssignDims ==
  /\ ns = <<>>
  /\ \E b \in BatchSizes, sl \in SeqLens, kv \in HiddenDimsKV, h \in HiddenDims,
        i \in IntermediateDims :
       ns' = [batch_size |-> b, seq_len |-> sl, hidden_dim_kv |-> kv,
              hidden_dim |-> h, intermediate_dim |-> i]
  /\ call' = CalledPlain("assign", "none", <<>>)
  /\ UNCHANGED <<model, pre, ncalls, nb, printed, train_dataloader>>

\* total_memory_kv_down_proj = calculate_memory_kv_down_proj(batch_size,
\* seq_len, hidden_dim, intermediate_dim), then the print of 18 times it
CalculateMemory ==
  /\ call.op = "assign"
  /\ \E gb \in {calculate_memory_kv_down_proj(ns.batch_size, ns.seq_len, ns.hidden_dim,
                                               ns.intermediate_dim, ns.hidden_dim_kv)} :
       /\ call' = CalledPlain("calculate_memory_kv_down_proj", "none", <<gb>>)
       /\ printed' = Append(printed,
            "Total memory for k_proj, v_proj, and down_proj activations: "
              \o Format6f(FloatTimes(18, gb)) \o " GB")
  /\ ncalls' = ncalls + 1
  /\ UNCHANGED <<model, pre, nb, train_dataloader, ns>>

NextMemoryAnalysis ==
  \/ AssignDims
  \/ CalculateMemory

SpecMemoryAnalysis == InitMemoryAnalysis /\ [][NextMemoryAnalysis]_vars

(***************************************************************************)
(* Properties of the notebooks' functions.                                 *)
(***************************************************************************)
\* the dotted paths of m that some key of match_on occurs in
MatchedPaths(m, match_on) ==
  LET ms == named_modules(m)
  IN {ms[i].name : i \in {j \in DOMAIN ms :
        \E k \in DOMAIN match_on : Contains(match_on[k], ms[j].name)}}

\* an inject_adapter call has just returned without raising
Injected == call.op = "inject_adapter" /\ call.exc = "none"

\* the module now at path p was built by the last call's adapter_fn around
\* module x
AdapterAround(p, x) ==
  LET now == get_submodule(model, p)
  IN /\ now > Len(pre.mods)
     /\ model.mods[now].cls = call.fn.cls
     /\ ChildId(model, now, "existing_layer") = x

\* C1: after inject_adapter returns, at every path of the model as it was
\* before the call that contains a key of match_on stands the adapter that
\* adapter_fn built for the module that was at that path, with that module as
\* its existing_layer.
C1_EveryMatchReplaced ==
  Injected =>
    \A p \in MatchedPaths(pre, call.match_on) :
      AdapterAround(p, get_submodule(pre, p))

\* the IA3 notebook's second injection cell has run after its first: the
\* adapter at a k_proj path wraps a second new adapter, not the adapter that
\* stood there
C1_SecondInjectionNests ==
  /\ Injected /\ ncalls = 2
  /\ call.match_on = <<"k_proj", "v_proj", "down_proj">>
  /\ call.fn.cls = "IA3Adapter2"
  /\ \E p \in MatchedPaths(pre, call.match_on) :
       LET now == get_submodule(model, p)
           inner == ChildId(model, now, "existing_layer")
       IN /\ pre.mods[get_submodule(pre, p)].cls = "IA3Adapter1"
          /\ inner > Len(pre.mods)
          /\ ChildId(model, inner, "existing_layer") = get_submodule(pre, p)

\* the parameters the loaded checkpoint brought, by identity
Pretrained(m0) == 1..Len(m0.pars)

\* C2: after mark_only_lora_as_trainable, a parameter of the model requires
\* grad exactly when its name contains "lora_A" or "lora_B", and every
\* pretrained parameter, those of wrapped layers included, is frozen.
C2_OnlyLoraTrainable ==
  call.op = "mark_only_lora_as_trainable" =>
    LET np == named_parameters(model)
    IN /\ \A i \in DOMAIN np :
            model.pars[np[i].id].requires_grad
              <=> (Contains("lora_A", np[i].name) \/ Contains("lora_B", np[i].name))
       /\ \A q \in Pretrained(OPTForCausalLM(NumLayersSmall)) :
            ~model.pars[q].requires_grad

\* mark_only_lora_as_trainable ran on a model holding an adapter: a lora
\* parameter is trainable and the weight of a wrapped layer is frozen
C2_Witness ==
  /\ call.op = "mark_only_lora_as_trainable"
  /\ LET np == named_parameters(model)
     IN /\ \E i \in DOMAIN np :
             Contains("lora_B", np[i].name) /\ model.pars[np[i].id].requires_grad
        /\ \E i \in DOMAIN np :
             /\ Contains("existing_layer.weight", np[i].name)
             /\ ~model.pars[np[i].id].requires_grad
             /\ pre.pars[np[i].id].requires_grad

\* the branch IA3Adapter1.forward takes: `if not self.is_feedforward` scales
\* the wrapped layer's output, otherwise the input
ForwardScales(m, id) ==
  IF ~Truthy(m.mods[id].is_feedforward) THEN "output" ELSE "input"

\* the number of elements of the adapter's ia3_lw
Ia3LwNumel(m, id) ==
  LET ps == m.mods[id].pars
      i == CHOOSE j \in DOMAIN ps : ps[j].name = "ia3_lw"
  IN m.pars[ps[i].id].numel

\* the notebook's first injection cell has just run on the loaded model
FirstIA3Injection ==
  /\ Injected /\ ncalls = 1
  /\ call.match_on = <<"k_proj", "v_proj", "down_proj">>
  /\ call.fn = [cls |-> "IA3Adapter1", is_feedforward |-> NotebookIsFeedforward]

\* C4: after the IA3 injection with keys [k_proj, v_proj, down_proj], the
\* adapters on k_proj and v_proj have an ia3_lw of length out_features and
\* scale the wrapped layer's output; the adapter on down_proj has an ia3_lw of
\* length in_features and scales the input.
C4_FeedforwardOnlyOnDownProj ==
  FirstIA3Injection =>
    \A p \in MatchedPaths(pre, call.match_on) :
      LET a == get_submodule(model, p)
      IN IF Contains("down_proj", p)
         THEN /\ Ia3LwNumel(model, a) = model.mods[a].in_features
              /\ ForwardScales(model, a) = "input"
         ELSE /\ Ia3LwNumel(model, a) = model.mods[a].out_features
              /\ ForwardScales(model, a) = "output"

\* C6: after ia3_params, a parameter requires grad exactly when its name
\* contains "ia3_lw", and the call returned the total parameter count and the
\* count of the ia3_lw parameters.
C6_Ia3ParamsFreezes ==
  call.op = "ia3_params" =>
    LET np == named_parameters(model)
    IN /\ \A i \in DOMAIN np :
            model.pars[np[i].id].requires_grad <=> Contains("ia3_lw", np[i].name)
       /\ call.ret[1] = PyInt(TotalNumel(model))
       /\ call.ret[2] = PyInt(Sum([i \in DOMAIN np |->
                                     IF Contains("ia3_lw", np[i].name)
                                     THEN model.pars[np[i].id].numel ELSE 0]))

\* train_model has just returned after processing at least one batch
Trained ==
  /\ call.op = "train_model" /\ call.exc = "none"
  /\ call.ret[1] >= 1 /\ Len(train_dataloader) >= 1

\* C7: when train_model has processed at least one batch, some parameter's
\* value after the call differs from its value before it.
C7_TrainingChangesParameters ==
  Trained => \E q \in Range(parameters(model)) : model.pars[q].data # pre.pars[q].data

\* C8: after set_qconfig_for_model, every module of named_modules(), the root
\* included, has a qconfig: embedding_qconfig exactly when the module is an
\* nn.Embedding, the default QAT qconfig otherwise.
C8_QconfigByClass ==
  call.op = "set_qconfig_for_model" =>
    LET ms == named_modules(model)
    IN \A i \in DOMAIN ms :
         LET mod == model.mods[ms[i].id]
         IN /\ mod.qconfig # "unset"
            /\ mod.qconfig = "embedding_qconfig" <=> mod.isEmbedding
            /\ ~mod.isEmbedding => mod.qconfig = "default_qconfig"

\* set_qconfig_for_model ran on a model with embeddings inside a container
\* that is no embedding: the two qconfigs are both assigned
C8_Witness ==
  /\ call.op = "set_qconfig_for_model"
  /\ model.mods[model.root].qconfig = "default_qconfig"
  /\ LET ms == named_modules(model)
     IN /\ \E i \in DOMAIN ms :
             /\ model.mods[ms[i].id].isEmbedding
             /\ model.mods[ms[i].id].qconfig = "embedding_qconfig"
             /\ pre.mods[ms[i].id].qconfig = "unset"
        /\ \E i \in DOMAIN ms :
             /\ Contains("embeddings", ms[i].name)
             /\ ~model.mods[ms[i].id].isEmbedding
             /\ model.mods[ms[i].id].qconfig = "default_qconfig"

\* an adapter's forward has just been called on input call.ret[1] and gave
\* call.ret[2]
Forwarded(classes) == call.op = "forward" /\ ns.layer.cls \in classes

\* lora_B holds zeros only
ZeroB(layer) == \A k \in DOMAIN layer.lora_B.data : layer.lora_B.data[k] = 0

\* (lora_alpha / r) * (x . lora_A^T . lora_B^T), computed in the dtype of x
LowRankUpdate(layer, x) ==
  MulScalar(linear(linear(x, to(layer.lora_A, x.dtype), None),
                   to(layer.lora_B, x.dtype), None),
            layer.scaling)

\* C3: for r > 0 and no dropout, LoRAAdapter.forward(x) is existing_layer(x)
\* plus (lora_alpha / r) * (x . lora_A^T . lora_B^T), and while lora_B is all
\* zeros (after construction, after reset_parameters) it is existing_layer(x),
\* for every input x of the wrapped layer.
C3_ForwardAddsLowRankUpdate ==
  (Forwarded({"LoRAAdapter"}) /\ ns.layer.r > 0) =>
    LET x == call.ret[1]
        wrapped == forward(ns.layer.existing_layer, x)
    IN /\ call.ret[2] = add(wrapped, LowRankUpdate(ns.layer, x))
       /\ ZeroB(ns.layer) => call.ret[2] = wrapped

\* the form that is not the one the layer has, with the wrapped layer's weight
\* and bias as what get_weight and get_bias return
OtherForm(layer) ==
  [layer EXCEPT !.cls = IF @ = "IA3Adapter1" THEN "IA3Adapter2" ELSE "IA3Adapter1",
                !.get_accessors = "supplied"]

\* an IA3 adapter has been called; if it is IA3Adapter2, get_weight and
\* get_bias return the wrapped layer's weight and bias
ForwardedIA3 ==
  /\ Forwarded({"IA3Adapter1", "IA3Adapter2"})
  /\ ns.layer.get_accessors # "missing"

\* linear(x, diag(l).W, b o l) = linear(x, W, b) o l and
\* linear(x, W.diag(l), b) = linear(x o l, W, b), for l a vector
FoldingIdentity(W, b, l, x, is_feedforward) ==
  IF ~is_feedforward
  THEN linear(x, matmul(diag(l), W), IF b = None THEN None ELSE mul(b, l))
         = mul(linear(x, W, b), l)
  ELSE linear(x, matmul(W, diag(l)), b) = linear(mul(x, l), W, b)

Bytes(i) == printed[i].bytes

\* C9: the memory printed is element_size x number of elements, 4, 2 and 1
\* bytes per element for float32, float16 and int8: the int8 tensor takes a
\* quarter of the float32 storage (75% less), the float16 tensor half, and
\* 100 x 100 elements take 40000, 20000 and 10000 bytes.
C9_MemoryByDtype ==
  Len(printed) = 3 =>
    LET n == nelement(ns.tensor)
    IN /\ Bytes(1) = 4 * n /\ Bytes(2) = 2 * n /\ Bytes(3) = n
       /\ nelement(ns.tensor_fp16) = n /\ nelement(ns.tensor_int8) = n
       /\ 4 * Bytes(3) = Bytes(1)
       /\ 100 * (Bytes(1) - Bytes(3)) = 75 * Bytes(1)
       /\ 2 * Bytes(2) = Bytes(1)
       /\ ns.tensor.shape = <<NotebookDim, NotebookDim>>
            => <<Bytes(1), Bytes(2), Bytes(3)>> = <<40000, 20000, 10000>>

\* the notebook's own 100 x 100 tensor has gone through the three statements
C9_Witness ==
  /\ Len(printed) = 3
  /\ ns.tensor.shape = <<NotebookDim, NotebookDim>>
  /\ ns.tensor_fp16.dtype = "float16"
  /\ ns.tensor_int8.dtype = "qint8"

\* the injection cell has run to its prints
CellRan == call.op = "injection_cell" /\ call.exc = "none"

\* r x (in_features + out_features) summed over the layers at the matched
\* paths of the model before the call
AddedByRank(m, match_on, r) ==
  LET ms == named_modules(m)
  IN Sum([i \in DOMAIN ms |->
            IF \E k \in DOMAIN match_on : Contains(match_on[k], ms[i].name)
            THEN r * (m.mods[ms[i].id].in_features + m.mods[ms[i].id].out_features)
            ELSE 0])

\* the notebook's own run of the cell: r = 8 on q_proj, k_proj, v_proj of the
\* 12-layer checkpoint
NotebookCell ==
  /\ CellRan
  /\ call.match_on = <<"q_proj", "k_proj", "v_proj">>
  /\ call.fn.r = 8
  /\ Len(match_submodules(pre, "self_attn.q_proj")) = OPTLayers

\* C10: injecting LoRAAdapter of rank r adds r x (in_features + out_features)
\* parameters per wrapped layer, all created by the injection; after
\* mark_only_lora_as_trainable these are the trainable ones; for r = 8 on
\* q_proj, k_proj, v_proj of the 12 layers the trainable count is 442368 and
\* the total is the original count plus 442368, 125681664.
C10_LoRAParameterCount ==
  CellRan =>
    LET added == AddedByRank(pre, call.match_on, call.fn.r)
        np == named_parameters(model)
    IN /\ call.ret[1] = TotalNumel(pre) + added
       /\ call.ret[2] = added
       /\ \A i \in DOMAIN np :
            (Contains("lora_A", np[i].name) \/ Contains("lora_B", np[i].name))
              <=> np[i].id > Len(pre.pars)
       /\ NotebookCell =>
            /\ call.ret = <<125681664, 442368>>
            /\ call.ret[1] = TotalNumel(pre) + 442368
            /\ printed = << [line |-> "Total Parameters", n |-> 125681664],
                            [line |-> "Trainable Parameters", n |-> 442368] >>

\* the notebook's own run of the cell has printed its counts
C10_Witness ==
  /\ NotebookCell
  /\ Len(printed) = 2
  /\ \E p \in MatchedPaths(pre, call.match_on) :
       model.mods[get_submodule(model, p)].cls = "LoRAAdapter"

\* the IA3 notebook's first injection cell has run to its prints
FirstIA3CellRan ==
  /\ nb = "IA3" /\ call.op = "injection_cell" /\ call.exc = "none" /\ ncalls = 1

\* the count of every parameter object of heap m
HeapCount(m) == PySum([q \in DOMAIN m.pars |-> m.pars[q].numel])

\* in_features (is_feedforward truthy) or out_features summed over the layers
\* at the matched paths of m
AddedByIA3(m, match_on, is_feedforward) ==
  LET ms == named_modules(m)
  IN PySum([i \in DOMAIN ms |->
              IF \E k \in DOMAIN match_on : Contains(match_on[k], ms[i].name)
              THEN IF Truthy(is_feedforward) THEN m.mods[ms[i].id].in_features
                   ELSE m.mods[ms[i].id].out_features
              ELSE 0])

\* the notebook's own run of the first cell, on the 18-block checkpoint
NotebookFirstIA3Cell ==
  /\ FirstIA3CellRan
  /\ call.match_on = <<"k_proj", "v_proj", "down_proj">>
  /\ call.fn.is_feedforward = NotebookIsFeedforward
  /\ Len(match_submodules(pre, "k_proj")) = GemmaLayers

\* C11: after the first IA3 injection ia3_params reports as ia3_lw parameters
\* the sum of the adapters' ia3_lw lengths and as total the pretrained count
\* plus that; on k_proj, v_proj (2048 -> 256) and down_proj (16384 -> 2048) of
\* the 18 blocks these are 368640 and 2506541056, as the cell printed.
C11_FirstInjectionCounts ==
  FirstIA3CellRan =>
    /\ call.ret[2] = AddedByIA3(pre, call.match_on, call.fn.is_feedforward)
    /\ call.ret[1] = PyAdd(HeapCount(pre), call.ret[2])
    /\ NotebookFirstIA3Cell =>
         /\ \A p \in MatchedPaths(pre, call.match_on) :
              LET x == pre.mods[get_submodule(pre, p)]
              IN <<x.in_features, x.out_features>> =
                   IF Contains("down_proj", p) THEN <<16384, 2048>> ELSE <<2048, 256>>
         /\ Cardinality(MatchedPaths(pre, call.match_on)) = 3 * 18
         /\ call.ret[2] = PyInt(368640)
         /\ call.ret[1] = [hi |-> 2, lo |-> 506541056]
         /\ printed = << [line |-> "Total Parameters", n |-> call.ret[1]],
                         [line |-> "Trainable Parameters", n |-> call.ret[2]] >>

\* the notebook's own first cell has printed its counts over IA3Adapter1
\* modules
C11_Witness ==
  /\ NotebookFirstIA3Cell
  /\ Len(printed) = 2
  /\ \A p \in MatchedPaths(pre, call.match_on) :
       model.mods[get_submodule(model, p)].cls = "IA3Adapter1"

\* the memory cell has run with the notebook's values
NotebookMemoryCall ==
  /\ call.op = "calculate_memory_kv_down_proj"
  /\ ns = [batch_size |-> 32, seq_len |-> 216, hidden_dim_kv |-> 256,
           hidden_dim |-> 2048, intermediate_dim |-> 16384]

\* C12: calculate_memory_kv_down_proj returns, in GB, 2 matrices x 2
\* computations x batch x seq x 256 x 2 bytes for K and V plus (batch x seq x
\* intermediate + batch x seq x hidden) x 2 bytes for down_proj: 14155776 +
\* 254803968 = 268959744 bytes for 32, 216, 2048, 16384.
C12_MemoryOfTheAnalysis ==
  /\ call.op = "calculate_memory_kv_down_proj" =>
       call.ret[1] =
         Dyadic(2 * 2 * ns.batch_size * ns.seq_len * ns.hidden_dim_kv * 2
                  + (ns.batch_size * ns.seq_len * ns.intermediate_dim
                       + ns.batch_size * ns.seq_len * ns.hidden_dim) * 2,
                BytesPerGB)
  /\ NotebookMemoryCall =>
       /\ 2 * 2 * 32 * 216 * 256 * 2 = 14155776
       /\ (32 * 216 * 16384 + 32 * 216 * 2048) * 2 = 254803968
       /\ call.ret[1] = Dyadic(268959744, BytesPerGB)

\* the notebook's call returned 261881856 bytes in GB (7077888 for K and V)
\* and printed 4.390137 GB for the 18 blocks
C12_NotebookReturns ==
  /\ NotebookMemoryCall
  /\ call.ret[1] = Dyadic(7077888 + 254803968, BytesPerGB)
  /\ printed =
       <<"Total memory for k_proj, v_proj, and down_proj activations: 4.390137 GB">>


\* no key of match_on occurs in the dotted path
Unmatched(name, match_on) ==
  \A k \in DOMAIN match_on : ~Contains(match_on[k], name)

\* the module that m0 has at path name is the module m1 has there, of the same
\* class and with the same parameter objects under the same names, each with
\* the value and the flags it had
SameModuleAt(m0, m1, name) ==
  LET id == get_submodule(m0, name)
  IN /\ get_submodule(m1, name) = id
     /\ m1.mods[id].cls = m0.mods[id].cls
     /\ m1.mods[id].pars = m0.mods[id].pars
     /\ \A j \in DOMAIN m0.mods[id].pars :
          m1.pars[m0.mods[id].pars[j].id] = m0.pars[m0.mods[id].pars[j].id]

\* C13: whatever inject_adapter did (returned or raised), every module of the
\* model before the call whose dotted path contains no key of match_on is
\* still the same object at the same path, with the same parameters.
C13_UnmatchedModulesKept ==
  call.op = "inject_adapter" =>
    LET ms == named_modules(pre)
    IN \A i \in DOMAIN ms :
         Unmatched(ms[i].name, call.match_on) => SameModuleAt(pre, model, ms[i].name)

\* the LoRA cell's injection on q_proj, k_proj, v_proj has run: k_proj of the
\* first block is a new adapter, and out_proj, fc1, the layer norm, the
\* embeddings and lm_head are among the unmatched paths
C13_Witness ==
  /\ Injected
  /\ call.match_on = <<"q_proj", "k_proj", "v_proj">>
  /\ call.fn.r = 8
  /\ get_submodule(model, "model.decoder.layers.0.self_attn.k_proj") > Len(pre.mods)
  /\ \A name \in {"model.decoder.layers.0.self_attn.out_proj",
                   "model.decoder.layers.0.fc1", "model.decoder.layers.0.fc2",
                   "model.decoder.layers.0.final_layer_norm",
                   "model.decoder.embed_tokens", "lm_head"} :
       /\ name \in Range([i \in DOMAIN named_modules(pre) |-> named_modules(pre)[i].name])
       /\ Unmatched(name, call.match_on)
       /\ get_submodule(model, name) = get_submodule(pre, name)


\* the layer is an IA3Adapter2 as the notebook's class defines it
IsNotebookIA3Adapter2(layer) ==
  layer.cls = "IA3Adapter2" /\ layer.get_accessors = "missing"

\* C14: a forward call on an IA3Adapter2 never returns: it raises the
\* AttributeError of the missing get_weight, whatever the input and the
\* is_feedforward argument, and leaves the layer's parameters as they were.
C14_Adapter2ForwardRaises ==
  [][(call'.op = "forward" /\ IsNotebookIA3Adapter2(ns.layer))
       => /\ call'.exc = "AttributeError"
          /\ call'.ret[2] = Raise("AttributeError")
          /\ ns' = ns]_vars

\* forward was called on an IA3Adapter2 whose ia3_lw a training step had set,
\* with a batch as input, and raised
C14_Witness ==
  /\ call.op = "forward"
  /\ IsNotebookIA3Adapter2(ns.layer)
  /\ call.exc = "AttributeError"
  /\ Len(call.ret[1].shape) = 2
  /\ \E k \in DOMAIN ns.layer.ia3_lw.data : ns.layer.ia3_lw.data[k] # 1


\* name lies below path in the module tree
Below(name, path) ==
  Len(name) > Len(path) /\ SubSeq(name, 1, Len(path) + 1) = path \o "."

\* replace_submodule has just returned
Replaced == call.op = "replace_submodule" /\ call.exc = "none"

\* C15: after replace_submodule(model, path, new_module), get_submodule(model,
\* path) is new_module, and the module at every path of the model as it was
\* that is neither path nor below it is the same module with the same
\* parameters.
C15_ReplaceThenGet ==
  Replaced =>
    LET path == call.match_on[1]
        ms == named_modules(pre)
    IN /\ get_submodule(model, path) = call.ret[1]
       /\ \A i \in DOMAIN ms :
            (ms[i].name # path /\ ~Below(ms[i].name, path))
              => SameModuleAt(pre, model, ms[i].name)

\* a second replacement was made at a path through the ModuleList's "0" on a
\* model whose lm_head, a direct child, an earlier call had replaced; the
\* module that stood at the path had modules below it
C15_Witness ==
  /\ Replaced /\ ncalls = 2
  /\ pre.mods[get_submodule(pre, "lm_head")].cls # "Linear"
  /\ "0" \in Range(SplitDots(call.match_on[1]))
  /\ get_submodule(model, call.match_on[1]) = call.ret[1]
  /\ \E n \in ModuleNames(pre) : Below(n, call.match_on[1])
  /\ get_submodule(model, "lm_head") = get_submodule(pre, "lm_head")

\* the list holds exactly the names of the traversal that contain key, each
\* once, and each entry's successor comes later in the traversal; names are
\* those of named_modules, in order
MatchesOf(names, key, matching_layers) ==
  /\ Range(matching_layers) = {n \in Range(names) : Contains(key, n)}
  /\ \A i \in 1..(Len(matching_layers) - 1) :
       \E b \in DOMAIN names :
         /\ names[b] = matching_layers[i + 1]
         /\ \E a \in 1..(b - 1) : names[a] = matching_layers[i]
  /\ \A i, j \in DOMAIN matching_layers : i # j => matching_layers[i] # matching_layers[j]

\* every name below a name whose last component contains key is in the list
DescendantsMatched(names, key, matching_layers) ==
  \A n \in Range(names) :
    (n # "" /\ Contains(key, SplitDots(n)[Len(SplitDots(n))]))
      => \A d \in Range(names) : Below(d, n) => d \in Range(matching_layers)

\* C16: match_submodules(model, key) returns exactly the dotted names of the
\* model's modules that contain key, each once, in the order named_modules
\* yields them; among them every module below a module whose own name
\* contains key; and for the empty key every name, the root's included.
C16_MatchBySubstring ==
  call.op = "match_submodules" =>
    \E ms \in {named_modules(model)} : \E names \in {[i \in DOMAIN ms |-> ms[i].name]} :
      /\ MatchesOf(names, call.match_on[1], call.ret[1])
      /\ DescendantsMatched(names, call.match_on[1], call.ret[1])
      /\ call.match_on[1] = "" => (call.ret[1] = names /\ names[1] = "")

\* match_submodules was called with a container's name on a model holding an
\* adapter: the list holds the container, the layers below it, and the layer
\* the adapter wraps, and leaves other modules out
C16_Witness ==
  /\ call.op = "match_submodules"
  /\ call.match_on[1] \in {"self_attn", "mlp"}
  /\ Len(call.ret[1]) > 2
  /\ Len(call.ret[1]) < Len(named_modules(model))
  /\ \E i \in DOMAIN call.ret[1] : Contains("existing_layer", call.ret[1][i])


\* every module of the model is in training mode
InTrainingMode(m) ==
  \A e \in Range(named_modules(m)) : m.mods[e.id].training

\* every module of the model carries a qconfig
EveryModuleHasQconfig(m) ==
  \A e \in Range(named_modules(m)) : m.mods[e.id].qconfig # "unset"

\* the step trains the model that prepare_qat returned: its modules and
\* parameters are new objects, the Linear and Embedding layers QAT modules,
\* and no parameter of the model that was passed to prepare_qat is touched
TrainsThePrepared ==
  /\ call'.op = "train_model"
  /\ pre' = model /\ model'.root = call.ret[1]
  /\ model.root # pre.root
  /\ \A e \in Range(named_modules(model)) :
       /\ e.id > Len(pre.mods)
       /\ model.mods[e.id].cls \notin {"Linear", "Embedding"}
  /\ \A q \in Range(parameters(model)) : q > Len(pre.pars)
  /\ \A q \in 1..Len(pre.pars) : model'.pars[q] = pre.pars[q]

\* C17: in the quantization-aware-training flow set_qconfig_for_model runs on
\* the model just loaded, model.train() after it, prepare_qat after that, on a
\* model in training mode whose every module carries a qconfig, and it does
\* not raise; the statement after prepare_qat is train_model, on the prepared
\* model that prepare_qat returned and not on the model passed to it.
C17_QATFlowOrder ==
  [][/\ call'.op = "set_qconfig_for_model" => call.op = "from_pretrained"
     /\ call'.op = "model.train" => call.op = "set_qconfig_for_model"
     /\ call'.op = "prepare_qat" =>
          /\ call.op = "model.train"
          /\ InTrainingMode(model) /\ EveryModuleHasQconfig(model)
          /\ call'.exc = "none"
     /\ call'.op = "train_model" => call.op \in {"from_pretrained", "prepare_qat"}
     /\ call.op = "prepare_qat" => TrainsThePrepared]_vars

\* the flow has reached its end: train_model ran an epoch over a non-empty
\* dataloader on the prepared model, whose classifier is a QAT Linear that
\* has a gradient, after the model had been loaded in evaluation mode
C17_Witness ==
  /\ ncalls = 7 /\ call.op = "train_model" /\ call.exc = "none"
  /\ call.ret[1] >= 1 /\ Len(train_dataloader) >= 1
  /\ LET classifier == get_submodule(model, "classifier")
     IN /\ model.mods[classifier].cls = "qat.Linear"
        /\ model.mods[classifier].training
        /\ \E i \in DOMAIN model.mods[classifier].pars :
             model.pars[model.mods[classifier].pars[i].id].grad # 0
  /\ ~InTrainingMode(from_pretrained(DistilBertForSequenceClassification(NumLayersSmall)))


\* the lines a step appended to the printed ones
NewLines == SubSeq(printed', Len(printed) + 1, Len(printed'))

\* C18: train_model over a non-empty dataloader returns after num_epochs
\* epochs, having printed one line "Epoch k/num_epochs" for k = 1..num_epochs
\* in order, each with the sum of the batch losses of one pass over the
\* dataloader and the number of batches, and having accumulated the gradient
\* of every batch once per epoch; over an empty dataloader the first epoch's
\* division by len(train_dataloader) raises ZeroDivisionError and no line is
\* printed.
C18_EpochsAndAverages ==
  [][call'.op = "train_model" =>
       LET num_epochs == call'.ret[1]
           len == Len(train_dataloader)
       IN IF len > 0
          THEN /\ call'.exc = "none"
               /\ NewLines =
                    [k \in 1..num_epochs |->
                       [line |-> "Epoch", epoch |-> k, num_epochs |-> num_epochs,
                        total_loss |-> Sum(train_dataloader), len |-> len]]
               /\ \A q \in Range(parameters(model')) :
                    model'.pars[q].grad =
                      model.pars[q].grad
                        + (IF model.pars[q].requires_grad
                           THEN num_epochs * Sum(train_dataloader) ELSE 0)
          ELSE /\ NewLines = <<>>
               /\ call'.exc = IF num_epochs >= 1 THEN "ZeroDivisionError" ELSE "none"]_vars

\* train_model has run two epochs over two batches of different losses and
\* printed its two lines, each with the sum of both losses
C18_Witness ==
  /\ call.op = "train_model" /\ call.exc = "none" /\ call.ret[1] = 2
  /\ Len(train_dataloader) = 2 /\ train_dataloader[1] # train_dataloader[2]
  /\ Len(printed) >= 2
  /\ printed[Len(printed)].epoch = 2
  /\ printed[Len(printed)].total_loss = train_dataloader[1] + train_dataloader[2]
  /\ printed[Len(printed) - 1].epoch = 1
  /\ printed[Len(printed) - 1].total_loss = printed[Len(printed)].total_loss


\* the dotted names of the modules of m that are of class cls, in the order
\* of named_modules
PathsOfClass(m, cls) ==
  LET ms == SelectSeq(named_modules(m), LAMBDA e : m.mods[e.id].cls = cls)
  IN [i \in DOMAIN ms |-> ms[i].name]

\* the second injection cell has run to its prints with the keys of the first:
\* the IA3Adapter1 modules it found stood at the paths its keys match, the
\* paths of the layers they wrap aside
SecondIA3CellRan ==
  /\ nb = "IA3" /\ call.op = "injection_cell" /\ call.exc = "none" /\ ncalls = 2
  /\ Range(PathsOfClass(pre, "IA3Adapter1")) =
       {p \in MatchedPaths(pre, call.match_on) : ~Contains("existing_layer", p)}

\* the notebook's own run of both cells, on the 18-block checkpoint
NotebookSecondIA3Cell ==
  /\ SecondIA3CellRan
  /\ call.match_on = <<"k_proj", "v_proj", "down_proj">>
  /\ Len(match_submodules(pre, "k_proj")) = 2 * GemmaLayers
  /\ \A p \in Range(PathsOfClass(pre, "IA3Adapter1")) :
       pre.mods[get_submodule(pre, p)].is_feedforward = NotebookIsFeedforward

\* at path p of the model stands a new IA3Adapter2 around another new
\* IA3Adapter2 around the IA3Adapter1 that stood at p, which wraps a Linear
NestedTwice(p) ==
  LET outer == get_submodule(model, p)
      inner == ChildId(model, outer, "existing_layer")
      first == ChildId(model, inner, "existing_layer")
  IN /\ outer > Len(pre.mods) /\ inner > Len(pre.mods) /\ outer # inner
     /\ model.mods[outer].cls = "IA3Adapter2"
     /\ model.mods[inner].cls = "IA3Adapter2"
     /\ first = get_submodule(pre, p)
     /\ model.mods[first].cls = "IA3Adapter1"
     /\ model.mods[ChildId(model, first, "existing_layer")].cls = "Linear"

\* the ia3_lw lengths of the three adapters stacked at path p
StackedIa3Lw(p) ==
  LET outer == get_submodule(model, p)
      inner == ChildId(model, outer, "existing_layer")
      first == ChildId(model, inner, "existing_layer")
  IN Ia3LwNumel(model, outer) + Ia3LwNumel(model, inner) + Ia3LwNumel(model, first)

\* C19: after the second injection cell with the keys of the first, every
\* adapted path holds IA3Adapter2(IA3Adapter2(IA3Adapter1(Linear))), since a
\* key matches the path and the path of the wrapped layer, and ia3_params
\* counts the ia3_lw of all three; on the 18-block model with the notebook's
\* keys that is 3 x 368640 = 1105920 of 2507278336 parameters, as printed.
C19_SecondInjectionStacks ==
  SecondIA3CellRan =>
    \E paths \in {PathsOfClass(pre, "IA3Adapter1")} :
      /\ \A i \in DOMAIN paths :
           /\ {paths[i], paths[i] \o ".existing_layer"}
                 \subseteq MatchedPaths(pre, call.match_on)
           /\ NestedTwice(paths[i])
      /\ call.ret[2] = PySum([i \in DOMAIN paths |-> StackedIa3Lw(paths[i])])
      /\ NotebookSecondIA3Cell =>
           /\ Len(paths) = 3 * 18
           /\ call.ret[2] = PyInt(3 * 368640)
           /\ call.ret[2] = PyInt(1105920)
           /\ call.ret[1] = [hi |-> 2, lo |-> 507278336]
           /\ SubSeq(printed, 3, 4) =
                << [line |-> "Total Parameters", n |-> call.ret[1]],
                   [line |-> "Trainable Parameters", n |-> call.ret[2]] >>

\* the notebook's own second cell has printed its counts over the stacked
\* adapters of the 18 blocks
C19_Witness ==
  /\ NotebookSecondIA3Cell
  /\ Len(printed) = 4
  /\ printed[2].n = PyInt(368640)
  /\ NestedTwice("model.layers.17.mlp.down_proj")


\* ia3_lw holds ones only, as __init__ leaves it
OnesLw(layer) == \A k \in DOMAIN layer.ia3_lw.data : layer.ia3_lw.data[k] = 1

\* an IA3Adapter1 whose ia3_lw is as constructed has just been called
ForwardedAsConstructed == Forwarded({"IA3Adapter1"}) /\ OnesLw(ns.layer)

====
